---- MODULE Spec2Model ----
(***************************************************************************)
(* Payment-webhook processing of the r38 backend: the idempotency ledger   *)
(* of process_payment_webhook, the settlement handlers of the BTCPay and   *)
(* Stripe processors, the provisioning toggle, the manual-verification     *)
(* queue and the customer provisioning orchestrator.                       *)
(*                                                                         *)
(* Every webhook delivery is an independent invocation; its database       *)
(* operations are separate steps that interleave with those of other       *)
(* invocations.  Only the ledger read of process_with_idempotency goes     *)
(* through the Firestore transaction object; every write of the handler is *)
(* issued outside it (create_doc / update_doc take no transaction).        *)
(***************************************************************************)
EXTENDS Integers, Sequences, FiniteSets, TLC

\* ---------------------------------------------------------------- bounds
MaxSubs == 1            \* subscription ids 1..MaxSubs
MaxDeliveries == 2      \* webhook invocations in one behaviour
MaxTime == 2            \* clock values 1..MaxTime (seconds of time.time())
MaxFlips == 1           \* admin changes of the provisioning flag

SubIds == 1..MaxSubs
Deliveries == 1..MaxDeliveries

\* ---------------------------------------------------------------- events
\* A verified, parsed notification.  invoice is the BTCPay invoice id (the
\* invoice of subscription s has id s) or the Stripe payment intent; id is
\* the native Stripe event id (0 for BTCPay, which has none); sub is the
\* subscription id carried in the metadata (0: none).
StripeIntent == MaxSubs + 1

BtcpayEvents ==
    [provider : {"btcpay"}, type : {"InvoiceSettled"},
     id : {0}, invoice : SubIds, sub : SubIds, paid : {TRUE}]
    \cup
    [provider : {"btcpay"}, type : {"InvoiceExpired"},
     id : {0}, invoice : {1}, sub : {1}, paid : {FALSE}]

StripeEvents ==
    [provider : {"stripe"}, type : {"checkout.session.completed"},
     id : {1}, invoice : {StripeIntent}, sub : {1}, paid : {TRUE}]
    \cup
    [provider : {"stripe"}, type : {"checkout.session.completed"},
     id : {2}, invoice : {StripeIntent}, sub : {0, 1}, paid : {FALSE}]

Events == {e \in BtcpayEvents : e.invoice = e.sub} \cup StripeEvents

\* Notifications of a type none of the three processors routes anywhere.
UnhandledEvents ==
    {[provider |-> "btcpay", type |-> "InvoiceCreated",
      id |-> 0, invoice |-> 1, sub |-> 1, paid |-> FALSE],
     [provider |-> "stripe", type |-> "customer.created",
      id |-> 3, invoice |-> StripeIntent, sub |-> 1, paid |-> FALSE],
     [provider |-> "dub", type |-> "partner.updated",
      id |-> 4, invoice |-> 0, sub |-> 0, paid |-> FALSE]}

AllEvents == Events \cup UnhandledEvents

\* event_id of process_payment_webhook: the native id for Stripe and dub,
\* the pair invoiceId "_" type for BTCPay.
EventKey(e) ==
    IF e.provider \in {"stripe", "dub"} THEN <<e.id, "evt">>
    ELSE <<e.invoice, e.type>>

Keys == {EventKey(e) : e \in AllEvents}

\* The routing of the processors: the handlers dictionaries of
\* process_btcpay_webhook and process_stripe_webhook, the if/elif chain of
\* process_dub_webhook.
HasHandler(e) ==
    CASE e.provider = "btcpay" ->
            e.type \in {"InvoiceSettled", "InvoiceExpired", "InvoiceInvalid"}
      [] e.provider = "stripe" ->
            e.type \in {"checkout.session.completed",
                         "payment_intent.failed"}
      [] e.provider = "dub" ->
            e.type \in {"sale.created", "lead.created", "commission.created",
                         "partner.enrolled", "link.created", "link.clicked"}
      [] OTHER -> FALSE

\* handlers.get(event_type) of process_btcpay_webhook / process_stripe_webhook
IsSettlement(e) ==
    \/ e.provider = "btcpay" /\ e.type = "InvoiceSettled"
    \/ e.provider = "stripe" /\ e.type = "checkout.session.completed"

\* ---------------------------------------------------------------- state
VARIABLES
    ledger,        \* webhook_events: key -> [exists, processed, error]
    subs,          \* subscriptions: id -> document
    payments,      \* payments: set of documents, one per document id
    verifs,        \* manual_verifications: sequence, add() appends
    customers,     \* customers: id -> document
    authUsers,     \* identity provider: email -> [exists, uid, password]
    astronUsers,   \* membership system: number of accounts created
    pwCounter,     \* passwords generated so far
    policy,        \* settings/main.auto_provisioning_enabled
    now,           \* clock, whole seconds
    pc,            \* position of each webhook invocation
    ev,            \* event of each invocation
    loc,           \* locals of each invocation
    http,          \* HTTP status answered by each invocation (0: none)
    hist,          \* history: handler runs, branch effects, counters
    co,            \* checkout requests: position and customer id found
    adm,           \* admin operations on the verification queue
    keyed,         \* ledger keys derived for BTCPay notifications
    retry,         \* a call through retry_firestore_operation
    limits,        \* rate_limits collection and the checks made against it
    orch           \* runs of the orchestrator that may overlap

vars == <<ledger, subs, payments, verifs, customers, authUsers, astronUsers,
          pwCounter, policy, now, pc, ev, loc, http, hist, co,
          adm, keyed, retry, limits, orch>>

\* The state of the admin operations and of the utilities.
aux == <<adm, keyed, retry, limits, orch>>

durable == <<ledger, subs, payments, verifs, customers>>

MaxCheckouts == 2       \* checkout requests in one behaviour
MaxRuns == 3            \* admin-triggered orchestrator runs

Sessions == 1..MaxCheckouts
CustIds == 1..MaxCheckouts
Emails == {"payer@x"}
EmailOfSub(s) == "payer@x"
UidOf(m) == 1

NoCustomer ==
    [exists |-> FALSE, email |-> "", generated_password |-> <<>>,
     firebase_uid |-> 0, astron_member_id |-> 0, magic_login_url |-> ""]

\* An entry of the manual_verifications collection.
Verification(st, auto, sid) ==
    [status |-> st, auto_generated |-> auto, subscription_created |-> sid,
     provisioning_error |-> ""]

NoEntry == [exists |-> FALSE, processed |-> FALSE, error |-> ""]

NoSub ==
    [exists |-> FALSE, status |-> "none", access_granted_at |-> 0,
     customer_id |-> 0, provider_subscription_id |-> 0,
     provisioning_status |-> "unset", provisioning_error |-> "",
     lead |-> "none", lead_status |-> "none", lead_provisioning |-> "none"]

NoUser == [exists |-> FALSE, uid |-> 0, password |-> 0]

NoEvent ==
    [provider |-> "none", type |-> "none", id |-> 0, invoice |-> 0,
     sub |-> 0, paid |-> FALSE]

\* What process_payment_webhook reads of a request: the provider query
\* parameter ("known": one of stripe, btcpay, btcpayserver, dub), the raw
\* body and the provider's signature header.
Request(prov, body, sig) ==
    [provider |-> prov, payload |-> body, signature |-> sig]

NoLocals ==
    [should_provision |-> TRUE, auto_prov_enabled |-> FALSE,
     existing |-> 0, result |-> "none",
     request |-> Request("known", "json", "valid"),
     provisioned |-> "none"]

\* The last request to the admin provisioning endpoint: which request it
\* was, its Authorization header and body, the status answered, and of the
\* run of the orchestrator it led to how it ended and the password, uid
\* and membership id it worked with.
NoRun ==
    [n |-> 0, sub |-> 0, ok |-> FALSE, hit |-> "none", steps |-> {},
     password |-> 0, firebase_uid |-> 0, astron_member_id |-> 0,
     auth |-> "none", body |-> "none", status |-> 0]

NoHist ==
    [runs |-> [k \in Keys |-> 0],
     branch |-> [d \in Deliveries |-> {}],
     flips |-> 0,
     run |-> NoRun]

NoCheckout == [pc |-> "idle", customer_id |-> 0]

\* ------------------------------------------- admin operations: state
MaxQueue == 2           \* verifications queued before the admin operations
MaxAdminOps == 2        \* admin operations in one behaviour

AdminOps == 1..MaxAdminOps

\* One call of approve_manual_verification, reject_manual_verification or
\* bulk_approve_verifications: its position, the caller, the verification
\* id asked for, the answer, the subscription an approval created, and the
\* locals of the bulk loop (the query's snapshot, the index of the item at
\* hand, how its orchestrator run ended, the counters and the error list).
NoOp ==
    [pc |-> "idle", kind |-> "none", caller |-> "none", v |-> 0,
     result |-> "none", sub |-> 0, items |-> <<>>, i |-> 0, run |-> "none",
     success_count |-> 0, fail_count |-> 0, errors |-> <<>>]

\* ---------------------------------------------------- utilities: state
\* A call of a function wrapped in retry_firestore_operation: the attempt
\* number of tenacity, the outcome of every invocation so far, the seconds
\* since the first invocation started and what the caller got.
NoRetry ==
    [pc |-> "idle", attempt_number |-> 0, outcomes |-> <<>>, elapsed |-> 0,
     result |-> "none"]

MaxChecks == 4          \* rate-limit checks in one behaviour
MaxClock == 2           \* limiter clock values 0..MaxClock

\* A document of rate_limits: the attempts of an IP or e-mail document,
\* the count of a global document.
NoLimitDoc == [exists |-> FALSE, attempts |-> <<>>, count |-> 0]

\* minute of the clock value t (current_minute of check_global_limit); a
\* minute is two clock values long
MinuteLen == 2
MinuteOf(t) == t \div MinuteLen

\* email.lower().strip()
Normalize(email) ==
    CASE email \in {"A@x", "a@x ", "a@x"} -> "a@x"
      [] OTHER -> email

Ips == {"10.0.0.1", "10.0.0.2"}
RawEmails == {"A@x", "a@x ", "b@x"}

\* doc_id: "ip_" / "email_" and the truncated SHA-256 of the IP or of the
\* normalized e-mail (taken to be free of collisions on the keys at hand),
\* "global_" and the minute.
DocId(kind, key, t) ==
    CASE kind = "ip" -> <<"ip", key>>
      [] kind = "email" -> <<"email", Normalize(key)>>
      [] OTHER -> <<"global", MinuteOf(t)>>

DocIds ==
    {<<"ip", k>> : k \in Ips}
    \cup {<<"email", Normalize(m)>> : m \in RawEmails}
    \cup {<<"global", MinuteOf(t)>> : t \in 0..MaxClock}

\* The rate_limits collection, the limiter's clock and the checks made.
NoLimits ==
    [docs |-> [x \in DocIds |-> NoLimitDoc], clock |-> 0, log |-> <<>>]

\* ------------------------------------------- overlapping runs: state
MaxOverlap == 2         \* runs of the orchestrator in progress at a time
MaxStarts == 3          \* runs of the orchestrator in one behaviour

RunIds == 1..MaxOverlap

\* One call of provision_customer whose steps interleave with those of
\* other calls: its position, how often the slot was used, the
\* subscription, the failure it is given, the failure that occurred, the
\* steps that ran to their end, the locals customer (id and the document
\* as the Customer object holds it), password, firebase_uid and
\* astron_member_id, whether it returned, and whether another call was in
\* progress at some point of it.
NoOrch ==
    [pc |-> "idle", n |-> 0, sub |-> 0, fail |-> "none", hit |-> "none",
     done |-> 0, cid |-> 0, doc |-> NoCustomer, password |-> 0,
     firebase_uid |-> 0, astron_member_id |-> 0, ok |-> FALSE,
     overlapped |-> FALSE]

\* ------------------------------------------------- document operations
\* DocumentBase.create_doc: writes the whole document under its id.
CreateDoc(coll, id, data) == [coll EXCEPT ![id] = data]

\* DocumentBase.update_doc: merges fields into an existing document.
UpdateDoc(coll, id, fields) ==
    [coll EXCEPT ![id] =
        [f \in DOMAIN coll[id] |->
            IF f \in DOMAIN fields THEN fields[f] ELSE coll[id][f]]]

\* collection.where('email', '==', email).limit(1).get()
CustomersByEmail(custs, m) ==
    {c \in CustIds : custs[c].exists /\ custs[c].email = m}

\* collection.add(): a document under a new id
FreeCustIds(custs) == {c \in CustIds : ~custs[c].exists}

\* manual_verifications.where('subscription_created', '==', id).limit(1)
VerifsOfSub(vs, sid) ==
    {i \in 1..Len(vs) : vs[i].subscription_created = sid}

AutoVerifsOfSub(vs, sid) ==
    {i \in VerifsOfSub(vs, sid) : vs[i].auto_generated}

\* ------------------------------------------------------------- checkout
\* create_btcpay_invoice / create_checkout_session: the customer is found
\* or created by e-mail, the subscription is created as payment_pending
\* and, for a partner offer, a manual verification references it.  The
\* checkout lead of a partner offer requires manual verification.
Checkouts ==
    {"absent", "plain", "lead", "partner", "partner_lead"}

CheckedOut(kind, cid) ==
    [NoSub EXCEPT !.exists = TRUE,
                  !.status = "payment_pending",
                  !.customer_id = cid,
                  !.lead = CASE kind = "lead" -> "plain"
                             [] kind = "partner_lead" -> "manual"
                             [] OTHER -> "none",
                  !.lead_status = IF kind \in {"lead", "partner_lead"}
                                  THEN "initiated" ELSE "none"]

RECURSIVE PartnerVerifs(_, _)
PartnerVerifs(kinds, s) ==
    IF s > MaxSubs THEN <<>>
    ELSE (IF kinds[s] \in {"partner", "partner_lead"}
          THEN <<Verification("pending", FALSE, s)>> ELSE <<>>)
         \o PartnerVerifs(kinds, s + 1)

\* The state after the checkouts `kinds`, before any notification, with
\* settings/main in one of the states `settings`.
AfterCheckouts(settings) ==
    \E kinds \in [SubIds -> Checkouts] :
        /\ \A s \in SubIds : kinds[s] = "absent" =>
               \A t \in SubIds : t > s => kinds[t] = "absent"
        /\ ledger = [k \in Keys |-> NoEntry]
        /\ subs = [s \in SubIds |->
                     IF kinds[s] = "absent" THEN NoSub
                     ELSE CheckedOut(kinds[s], 1)]
        /\ payments = {}
        /\ verifs = PartnerVerifs(kinds, 1)
        /\ customers = [c \in CustIds |->
                     IF c = 1 /\ kinds[1] # "absent"
                     THEN [NoCustomer EXCEPT !.exists = TRUE,
                                             !.email = EmailOfSub(1)]
                     ELSE NoCustomer]
        /\ authUsers = [m \in Emails |-> NoUser]
        /\ astronUsers = 0
        /\ pwCounter = 0
        /\ policy \in settings
        /\ now = 1
        /\ pc = [d \in Deliveries |-> "idle"]
        /\ ev = [d \in Deliveries |-> NoEvent]
        /\ loc = [d \in Deliveries |-> NoLocals]
        /\ http = [d \in Deliveries |-> 0]
        /\ hist = NoHist
        /\ co = [c \in Sessions |-> NoCheckout]
        /\ adm = [a \in AdminOps |-> NoOp]
        /\ keyed = {}
        /\ retry = NoRetry
        /\ limits = NoLimits
        /\ orch = [r \in RunIds |-> NoOrch]

\* settings/main has auto_provisioning_enabled = True, or does not exist.
Init == AfterCheckouts({"on", "missing"})

\* settings/main may also exist without the field.
InitSettings == AfterCheckouts({"on", "missing", "nofield"})

\* --------------------------------------------------------- orchestrator
\* Fernet encryption of the generated password, base64-encoded.
Encrypt(pw) == <<"fernet", pw>>
Decrypt(c) == c[2]

\* Where a run of provision_customer may fail: "load" is the read of the
\* subscription's product before the try block, the others are the
\* collaborator calls of steps 1 to 7 ("decrypt": the stored password does
\* not decrypt; "update": auth.update_user of an account that exists;
\* "attach": add_user_to_club; "membership": create_user of the membership
\* system).
FailPoints ==
    {"none", "load", "customer", "password", "decrypt", "identity", "update",
     "attach", "membership", "magic", "sync", "affiliate"}

\* The step of the saga a failure belongs to (0: before step 1).
StepOf(fail) ==
    CASE fail = "load" -> 0
      [] fail = "customer" -> 1
      [] fail \in {"password", "decrypt"} -> 2
      [] fail \in {"identity", "update"} -> 3
      [] fail \in {"attach", "membership"} -> 4
      [] fail = "magic" -> 5
      [] fail = "sync" -> 6
      [] fail = "affiliate" -> 7
      [] OTHER -> 9

\* Variant: a failure of the marketing-automation sync propagates.
SwallowedButSync ==
    {"decrypt", "update", "attach", "membership", "affiliate"}

\* The failures caught by a try/except inside the helper of their step:
\* _get_or_generate_password, _create_or_get_firebase_user,
\* _create_or_update_astron_account, _sync_activecampaign,
\* _record_affiliate_commission.
Swallowed ==
    {"decrypt", "update", "attach", "membership", "sync", "affiliate"}

\* The failures a settlement handler's run of the orchestrator is given.
HandlerFailPoints == {"none", "load", "identity", "membership"}

\* A run of provision_customer in progress: the subscription, the failure
\* it is given, the exception raised so far, the failure that occurred and
\* was swallowed, the number of steps that ran to their end, the customer
\* resolved, the collections as written so far and the values the run
\* works with.
StartRun(s, fail) ==
    [sub |-> s, fail |-> fail,
     raised |-> IF ~subs[s].exists THEN "not_found"
                ELSE IF fail = "load" THEN "load" ELSE "none",
     hit |-> "none", done |-> 0, cid |-> 0,
     customers |-> customers, authUsers |-> authUsers,
     astronUsers |-> astronUsers, pwCounter |-> pwCounter,
     password |-> 0, firebase_uid |-> 0, astron_member_id |-> 0]

\* The call that failure f names is made and fails in this step: the
\* exception leaves the run unless a helper catches it.
Raise(x, f) == [x EXCEPT !.raised = f]

\* step 1: _get_or_create_customer: by id, then by e-mail, else create
GetOrCreateCustomer(x) ==
    IF x.raised # "none" THEN x
    ELSE IF x.fail = "customer" THEN Raise(x, "customer")
    ELSE
    LET id == subs[x.sub].customer_id
        m == EmailOfSub(x.sub)
        byMail == CustomersByEmail(x.customers, m)
        cid == IF x.customers[id].exists THEN id
               ELSE IF byMail # {} THEN CHOOSE c \in byMail : TRUE
               ELSE id
    IN  [x EXCEPT !.cid = cid,
                  !.done = 1,
                  !.customers =
                      IF x.customers[cid].exists THEN x.customers
                      ELSE CreateDoc(x.customers, cid,
                              [NoCustomer EXCEPT !.exists = TRUE,
                                                 !.email = m])]

\* step 2: _get_or_generate_password: a stored password is decrypted and
\* returned; without one, or when it does not decrypt, a new one is
\* generated, encrypted and stored
GetOrGeneratePassword(x) ==
    IF x.raised # "none" THEN x
    ELSE
    LET stored == x.customers[x.cid].generated_password
        hasPw == stored # <<>>
        undecryptable == hasPw /\ x.fail = "decrypt"
        regen == ~hasPw \/ undecryptable
    IN  IF undecryptable /\ "decrypt" \notin Swallowed
        THEN Raise(x, "decrypt")
        ELSE IF ~hasPw /\ x.fail = "password" THEN Raise(x, "password")
        ELSE IF regen
        THEN [x EXCEPT !.password = x.pwCounter + 1,
                       !.pwCounter = x.pwCounter + 1,
                       !.hit = IF undecryptable THEN "decrypt" ELSE "none",
                       !.done = 2,
                       !.customers = UpdateDoc(x.customers, x.cid,
                           [generated_password |->
                               Encrypt(x.pwCounter + 1)])]
        ELSE [x EXCEPT !.password = Decrypt(stored), !.done = 2]

\* step 3: _create_or_get_firebase_user: the account is created with the
\* password, or it exists and auth.update_user sets the password, a failure
\* of which is logged and the account left with the password it had; then
\* the uid on the customer if it has none
CreateOrGetFirebaseUser(x) ==
    IF x.raised # "none" THEN x
    ELSE IF x.fail = "identity" THEN Raise(x, "identity")
    ELSE
    LET m == EmailOfSub(x.sub)
        kept == x.authUsers[m].exists /\ x.fail = "update"
    IN
    [x EXCEPT !.firebase_uid = UidOf(m),
              !.done = 3,
              !.hit = IF kept THEN "update" ELSE x.hit,
              !.authUsers =
                  IF kept THEN x.authUsers
                  ELSE [x.authUsers EXCEPT ![m] =
                          [exists |-> TRUE, uid |-> UidOf(m),
                           password |-> x.password]],
              !.customers =
                  IF x.customers[x.cid].firebase_uid = 0
                  THEN UpdateDoc(x.customers, x.cid,
                                 [firebase_uid |-> UidOf(m)])
                  ELSE x.customers]

\* step 4: _create_or_update_astron_account: an id on file is re-attached
\* to the club; if that fails, or there is none, a new account is
\* created; if that fails too, the run goes on without an id
CreateOrUpdateAstronAccount(x) ==
    IF x.raised # "none" THEN x
    ELSE
    LET onFile == x.customers[x.cid].astron_member_id
        hasAstron == onFile # 0
        hit == \/ hasAstron /\ x.fail = "attach"
               \/ ~hasAstron /\ x.fail = "membership"
        reuse == hasAstron /\ x.fail # "attach"
        created == ~reuse /\ x.fail # "membership"
    IN  IF hit /\ x.fail \notin Swallowed THEN Raise(x, x.fail)
        ELSE IF reuse
        THEN [x EXCEPT !.astron_member_id = onFile, !.done = 4]
        ELSE IF created
        THEN [x EXCEPT !.astron_member_id = x.astronUsers + 1,
                       !.astronUsers = x.astronUsers + 1,
                       !.hit = IF hit THEN x.fail ELSE x.hit,
                       !.done = 4,
                       !.customers = UpdateDoc(x.customers, x.cid,
                           [astron_member_id |-> x.astronUsers + 1])]
        ELSE [x EXCEPT !.astron_member_id = 0, !.hit = x.fail, !.done = 4]

\* step 5: _generate_magic_login_url (the plain login URL without a
\* membership id), stored on the customer
GenerateMagicLoginUrl(x) ==
    IF x.raised # "none" THEN x
    ELSE IF x.astron_member_id # 0 /\ x.fail = "magic"
    THEN Raise(x, "magic")
    ELSE [x EXCEPT !.done = 5,
                   !.customers = UpdateDoc(x.customers, x.cid,
                       [magic_login_url |->
                           IF x.astron_member_id = 0 THEN "login"
                           ELSE "magic"])]

\* steps 6 and 7: _sync_activecampaign, _record_affiliate_commission
Advisory(x, f, n) ==
    IF x.raised # "none" THEN x
    ELSE IF x.fail = f /\ f \notin Swallowed THEN Raise(x, f)
    ELSE [x EXCEPT !.done = n, !.hit = IF x.fail = f THEN f ELSE x.hit]

\* Variant: completion clears the error an earlier run left.
CompletedClearsError(t) ==
    [access_granted_at |-> t, provisioning_status |-> "completed",
     provisioning_error |-> ""]

\* step 8: the fields of subscription.update_doc
Completed(t) ==
    [access_granted_at |-> t, provisioning_status |-> "completed"]

\* step 8 and the return value, or the except clause of provision_customer:
\* provisioning_status = failed with the error, and the error raised again.
\* An error raised before the try block writes nothing.
EndRun(x) ==
    [ok |-> x.raised = "none",
     hit |-> IF x.raised = "none" THEN x.hit ELSE x.raised,
     steps |-> IF x.raised = "none" THEN 1..8 ELSE 1..x.done,
     password |-> x.password,
     firebase_uid |-> x.firebase_uid,
     astron_member_id |-> x.astron_member_id,
     customers |-> x.customers,
     authUsers |-> x.authUsers,
     astronUsers |-> x.astronUsers,
     pwCounter |-> x.pwCounter,
     subs |-> IF x.raised = "none"
              THEN UpdateDoc(subs, x.sub, Completed(now))
              ELSE IF x.raised \in {"not_found", "load"} THEN subs
              ELSE UpdateDoc(subs, x.sub,
                      [provisioning_status |-> "failed",
                       provisioning_error |-> x.raised])]

\* CustomerProvisioningService.provision_customer(s), failing at `fail`.
\* The result carries the new values of every variable the run writes,
\* ok = FALSE when the run raised, hit = the failure that occurred ("none"
\* when the call that `fail` names was not made), steps = the steps that
\* ran to their end, and the values the run worked with.
ProvisionCustomer(s, fail) ==
    EndRun(
      Advisory(
        Advisory(
          GenerateMagicLoginUrl(
            CreateOrUpdateAstronAccount(
              CreateOrGetFirebaseUser(
                GetOrGeneratePassword(
                  GetOrCreateCustomer(StartRun(s, fail)))))),
          "sync", 6),
        "affiliate", 7))

\* ------------------------------------------------- webhook invocations
InFlight == {"txn_read", "create", "link", "activate", "lead", "payment",
             "policy", "branch", "mv_check", "mv_add", "provision",
             "mark", "mark_err"}

Finish(d, status, result) ==
    /\ pc' = [pc EXCEPT ![d] = "done"]
    /\ http' = [http EXCEPT ![d] = status]
    /\ loc' = [loc EXCEPT ![d] = [NoLocals EXCEPT !.result = result,
                                                  !.request = loc[d].request]]

Goto(d, label) == pc' = [pc EXCEPT ![d] = label]

\* Variant: any signature that is present passes verification.
SignatureValidLax(sig) == TRUE

\* verify_webhook_signature: the HMAC of the body under the provider's
\* secret equals the header.
SignatureValid(sig) == sig = "valid"

\* process_payment_webhook before the ledger: the status the request is
\* rejected with, 0 when it is accepted.  validate_webhook raises
\* ValueError for a signature that does not verify and for a body that does
\* not parse, and the caller answers every ValueError with 401.
Envelope(req) ==
    IF req.provider = "missing" THEN 400
    ELSE IF req.payload = "empty" THEN 400
    ELSE IF req.provider = "unknown" THEN 400
    ELSE IF req.signature = "missing" THEN 401
    ELSE IF ~SignatureValid(req.signature) THEN 401
    ELSE IF req.payload = "garbled" THEN 401
    ELSE 0

RejectedAs(status) ==
    IF status = 401 THEN "unauthenticated" ELSE "bad_request"

\* The arrival of request req, whose body, when it verifies and parses, is
\* the event e.
ReceiveRaw(d, e, req) ==
    /\ pc[d] = "idle"
    /\ \A d2 \in Deliveries : d2 < d => pc[d2] # "idle"
    /\ LET status == Envelope(req)
       IN  IF status = 0
           THEN /\ Goto(d, "txn_read")
                /\ ev' = [ev EXCEPT ![d] = e]
                /\ loc' = [loc EXCEPT ![d].request = req]
                /\ UNCHANGED http
           ELSE /\ pc' = [pc EXCEPT ![d] = "done"]
                /\ http' = [http EXCEPT ![d] = status]
                /\ loc' = [loc EXCEPT ![d] =
                              [NoLocals EXCEPT !.result = RejectedAs(status),
                                               !.request = req]]
                /\ UNCHANGED ev
    /\ UNCHANGED <<ledger, subs, payments, verifs, customers, authUsers,
                   astronUsers, pwCounter, policy, now, hist, co, aux>>

\* A request with a provider parameter and a JSON body: only its signature
\* header decides whether it is accepted.
Receive(d, e, sig) == ReceiveRaw(d, e, Request("known", "json", sig))

\* Variant: the processed flag of an existing entry is not looked at.
AlreadyProcessedUnchecked(entry) == FALSE

\* event_doc.exists and event_data.get('processed')
AlreadyProcessed(entry) == entry.exists /\ entry.processed

\* process_with_idempotency: the transactional read of the ledger entry.
ReadLedger(d) ==
    /\ pc[d] = "txn_read"
    /\ IF AlreadyProcessed(ledger[EventKey(ev[d])])
       THEN Finish(d, 200, "already_processed")
       ELSE Goto(d, "create") /\ UNCHANGED <<http, loc>>
    /\ UNCHANGED <<ledger, subs, payments, verifs, customers, authUsers,
                   astronUsers, pwCounter, policy, now, ev, hist, co, aux>>

\* Variant: a type without a handler is an error.
FirstStepStrict(e) ==
    IF ~HasHandler(e) THEN "mark_err"
    ELSE IF ~IsSettlement(e) \/ e.sub = 0 THEN "mark"
    ELSE IF e.provider = "stripe" THEN "link"
    ELSE "activate"

\* Variant: a settlement handler reads the policy first.
FirstStepPolicy(e) ==
    IF ~HasHandler(e) THEN "mark"
    ELSE IF ~IsSettlement(e) \/ e.sub = 0 THEN "mark"
    ELSE "policy"

\* The first database operation of the handler the event is routed to.
\* A type without a handler is logged; the handlers of the other types
\* that are no settlement, and settlements without a subscription id,
\* write nothing.
FirstStep(e) ==
    IF ~HasHandler(e) THEN "mark"
    ELSE IF ~IsSettlement(e) \/ e.sub = 0 THEN "mark"
    ELSE IF e.provider = "stripe" THEN "link"
    ELSE "activate"

\* process_with_idempotency: webhook_event.create_doc(processed = False),
\* written outside the transaction, then the dispatch to the processor.
CreateLedger(d) ==
    /\ pc[d] = "create"
    /\ LET k == EventKey(ev[d])
       IN  /\ ledger' = CreateDoc(ledger, k,
                    [exists |-> TRUE, processed |-> FALSE, error |-> ""])
           /\ hist' = [hist EXCEPT !.runs[k] = @ + 1]
    /\ Goto(d, FirstStep(ev[d]))
    /\ UNCHANGED <<subs, payments, verifs, customers, authUsers,
                   astronUsers, pwCounter, policy, now, ev, loc, http, co,
                   aux>>

\* Variant: the session is taken as paid whatever its payment_status.
LinkUnconditional(d) ==
    /\ pc[d] = "link"
    /\ LET s == ev[d].sub
       IN  IF ~subs[s].exists
           THEN Goto(d, "mark_err") /\ UNCHANGED subs
           ELSE /\ subs' = UpdateDoc(subs, s,
                        [provider_subscription_id |-> ev[d].invoice])
                /\ Goto(d, "activate")
    /\ UNCHANGED <<ledger, payments, verifs, customers, authUsers,
                   astronUsers, pwCounter, policy, now, ev, loc, http, hist,
                   co, aux>>

\* process_checkout_completed: provider_subscription_id, then the
\* payment_status test.  update_doc of a missing subscription raises.
Link(d) ==
    /\ pc[d] = "link"
    /\ LET s == ev[d].sub
       IN  IF ~subs[s].exists
           THEN Goto(d, "mark_err") /\ UNCHANGED subs
           ELSE /\ subs' = UpdateDoc(subs, s,
                        [provider_subscription_id |-> ev[d].invoice])
                /\ Goto(d, IF ev[d].paid THEN "activate" ELSE "mark")
    /\ UNCHANGED <<ledger, payments, verifs, customers, authUsers,
                   astronUsers, pwCounter, policy, now, ev, loc, http, hist,
                   co, aux>>

\* Subscription.activate
ActivateFields(sub, t) == [status |-> "active", access_granted_at |-> t]

\* Subscription(id = subscription_id); subscription.activate()
Activate(d) ==
    /\ pc[d] = "activate"
    /\ LET s == ev[d].sub
       IN  IF ~subs[s].exists
           THEN Goto(d, "mark_err") /\ UNCHANGED subs
           ELSE /\ subs' = UpdateDoc(subs, s, ActivateFields(subs[s], now))
                /\ Goto(d, "lead")
    /\ UNCHANGED <<ledger, payments, verifs, customers, authUsers,
                   astronUsers, pwCounter, policy, now, ev, loc, http, hist,
                   co, aux>>

\* LeadConversionService.mark_lead_as_converted and the caller's
\* should_provision.
MarkLeadAsConverted(d) ==
    /\ pc[d] = "lead"
    /\ LET s == ev[d].sub
           requires == subs[s].lead = "manual"
       IN  /\ subs' =
                IF subs[s].lead = "none" \/ subs[s].lead_status = "converted"
                THEN subs
                ELSE UpdateDoc(subs, s,
                        [lead_status |-> "converted",
                         lead_provisioning |->
                             IF requires THEN "pending_admin_approval"
                             ELSE subs[s].lead_provisioning])
           /\ loc' = [loc EXCEPT ![d].should_provision = ~requires]
    /\ Goto(d, "payment")
    /\ UNCHANGED <<ledger, payments, verifs, customers, authUsers,
                   astronUsers, pwCounter, policy, now, ev, http, hist,
                   co, aux>>

\* payment_id = f"payment_{subscription_id}_{int(time.time())}"
PaymentId(s, t) == <<s, t>>

\* payment.create_doc(payment_data)
CreatePayment(d) ==
    /\ pc[d] = "payment"
    /\ LET s == ev[d].sub
           id == PaymentId(s, now)
           doc == [id |-> id, subscription_id |-> s,
                   payment_provider |-> ev[d].provider,
                   provider_payment_id |-> ev[d].invoice]
       IN  payments' = {p \in payments : p.id # id} \cup {doc}
    /\ Goto(d, "policy")
    /\ UNCHANGED <<ledger, subs, verifs, customers, authUsers, astronUsers,
                   pwCounter, policy, now, ev, loc, http, hist, co, aux>>

\* Variant: a missing document or field reads as enabled.
AutoProvisioningDefaultOn(p) == p # "off"

\* auto_prov_enabled = False; if settings_doc.exists:
\* settings_data.get('auto_provisioning_enabled', False)
AutoProvisioningEnabled(p) ==
    IF p = "missing" THEN FALSE
    ELSE IF p = "nofield" THEN FALSE
    ELSE p = "on"

\* settings/main read once
ReadPolicy(d) ==
    /\ pc[d] = "policy"
    /\ loc' = [loc EXCEPT ![d].auto_prov_enabled =
                              AutoProvisioningEnabled(policy)]
    /\ Goto(d, "branch")
    /\ UNCHANGED <<ledger, subs, payments, verifs, customers, authUsers,
                   astronUsers, pwCounter, policy, now, ev, http, hist,
                   co, aux>>

\* Variant: the flag is read again from settings/main at the branch.
ToggleValueReread(d) == policy = "on"

\* The value the branch tests: the local snapshot taken by ReadPolicy.
ToggleValue(d) == loc[d].auto_prov_enabled

\* if not auto_prov_enabled: ... elif should_provision: ... else: ...
Branch(d) ==
    /\ pc[d] = "branch"
    /\ Goto(d, IF ~ToggleValue(d) THEN "mv_check"
               ELSE IF loc[d].should_provision THEN "provision"
               ELSE "mark")
    /\ UNCHANGED <<ledger, subs, payments, verifs, customers, authUsers,
                   astronUsers, pwCounter, policy, now, ev, loc, http, hist,
                   co, aux>>

\* Variant: the pre-check is missing.
ExistingVerificationUnchecked(vs, sid) == FALSE

\* existing = manual_verifications.where('subscription_created', '==',
\* subscription_id).limit(1).get(); len(existing) > 0
ExistingVerification(vs, sid) == VerifsOfSub(vs, sid) # {}

MvCheck(d) ==
    /\ pc[d] = "mv_check"
    /\ Goto(d, IF ExistingVerification(verifs, ev[d].sub) THEN "mark"
               ELSE "mv_add")
    /\ hist' = [hist EXCEPT !.branch[d] = @ \cup {"manual"}]
    /\ UNCHANGED <<ledger, subs, payments, verifs, customers, authUsers,
                   astronUsers, pwCounter, policy, now, ev, loc, http, co,
                   aux>>

\* Variant: the verification is not linked to the subscription.
AutoVerificationUnlinked(sid) == Verification("pending", TRUE, 0)

\* verification_data of the settlement handlers
AutoVerification(sid) == Verification("pending", TRUE, sid)

\* manual_verifications.add(verification_data)
MvAdd(d) ==
    /\ pc[d] = "mv_add"
    /\ verifs' = Append(verifs, AutoVerification(ev[d].sub))
    /\ Goto(d, "mark")
    /\ UNCHANGED <<ledger, subs, payments, customers, authUsers,
                   astronUsers, pwCounter, policy, now, ev, loc, http, hist,
                   co, aux>>

\* Variant: an exception of the orchestrator leaves the handler.
AfterProvisioningPropagates(ok) == IF ok THEN "mark" ELSE "mark_err"

\* except Exception as provisioning_error: logged, the lead is marked, and
\* the handler returns normally ("Don't fail webhook processing").
AfterProvisioning(ok) == "mark"

\* The handler after the run r of the orchestrator: the lead is marked by
\* mark_lead_provisioning_complete / _failed and the handler goes on.
HandleProvisioning(d, r) ==
    /\ subs' =
         IF r.subs[ev[d].sub].lead = "none" THEN r.subs
         ELSE UpdateDoc(r.subs, ev[d].sub,
                 [lead_provisioning |->
                     IF r.ok THEN "completed" ELSE "failed"])
    /\ customers' = r.customers
    /\ authUsers' = r.authUsers
    /\ astronUsers' = r.astronUsers
    /\ pwCounter' = r.pwCounter
    \* provisioning_result, or the exception caught
    /\ loc' = [loc EXCEPT ![d].provisioned = IF r.ok THEN "ok" ELSE r.hit]
    /\ Goto(d, AfterProvisioning(r.ok))

\* provisioning_service.provision_customer(subscription_id) inside the
\* handler's try/except.
Provision(d, fail) ==
    /\ pc[d] = "provision"
    /\ HandleProvisioning(d, ProvisionCustomer(ev[d].sub, fail))
    /\ hist' = [hist EXCEPT !.branch[d] = @ \cup {"auto"}]
    /\ UNCHANGED <<ledger, payments, verifs, policy, now, ev, http, co, aux>>

\* Variant: only a successful run marks the entry processed.
MarkProcessedOnSuccess(entry, err) ==
    [exists |-> entry.exists, processed |-> err = "", error |-> err]

\* WebhookEvent.mark_processed
MarkProcessed(entry, err) ==
    [exists |-> entry.exists, processed |-> TRUE, error |-> err]

\* webhook_event.mark_processed(success = True); return {'success': True}
Mark(d) ==
    /\ pc[d] = "mark"
    /\ LET k == EventKey(ev[d])
       IN  ledger' = [ledger EXCEPT ![k] = MarkProcessed(ledger[k], "")]
    /\ Finish(d, 200, "success")
    /\ UNCHANGED <<subs, payments, verifs, customers, authUsers,
                   astronUsers, pwCounter, policy, now, ev, hist, co, aux>>

\* except: webhook_event.mark_processed(success = False, error); raise,
\* which the outer handler answers with 500.
MarkErr(d) ==
    /\ pc[d] = "mark_err"
    /\ LET k == EventKey(ev[d])
       IN  ledger' = [ledger EXCEPT ![k] = MarkProcessed(ledger[k], "error")]
    /\ Finish(d, 500, "error")
    /\ UNCHANGED <<subs, payments, verifs, customers, authUsers,
                   astronUsers, pwCounter, policy, now, ev, hist, co, aux>>

\* timeout_sec = 60: the platform ends an invocation that is still running;
\* nothing more of it executes and the sender gets no answer from it.
Timeout(d) ==
    /\ pc[d] \in InFlight \ {"txn_read"}
    /\ Finish(d, 0, "timeout")
    /\ UNCHANGED <<ledger, subs, payments, verifs, customers, authUsers,
                   astronUsers, pwCounter, policy, now, ev, hist, co, aux>>

\* ---------------------------------------------------------- environment
\* An admin writes settings/main.auto_provisioning_enabled while some
\* notification is being processed.
FlipPolicy ==
    /\ hist.flips < MaxFlips
    /\ \E d \in Deliveries : pc[d] \in InFlight
    /\ policy' = IF policy = "on" THEN "off" ELSE "on"
    /\ hist' = [hist EXCEPT !.flips = @ + 1]
    /\ UNCHANGED <<ledger, subs, payments, verifs, customers, authUsers,
                   astronUsers, pwCounter, now, pc, ev, loc, http, co, aux>>

\* time.time() advances by a second; only the steps that read the clock
\* can tell when.
ClockReaders == {"activate", "payment", "provision"}

Tick ==
    /\ now < MaxTime
    /\ \E d \in Deliveries : pc[d] \in ClockReaders
    /\ now' = now + 1
    /\ UNCHANGED <<ledger, subs, payments, verifs, customers, authUsers,
                   astronUsers, pwCounter, policy, pc, ev, loc, http, hist,
                   co, aux>>

\* Subscription.cancel
Cancel(s) ==
    /\ subs[s].exists
    /\ subs[s].status # "cancelled"
    /\ subs' = UpdateDoc(subs, s, [status |-> "cancelled"])
    /\ UNCHANGED <<ledger, payments, verifs, customers, authUsers,
                   astronUsers, pwCounter, policy, now, pc, ev, loc, http,
                   hist, co, aux>>

\* ------------------------------------------------ admin and checkout
\* What the provisioning endpoint reads of a request: the Authorization
\* header ("none": missing or no bearer token, "invalid": a token that does
\* not verify, "user": the token of a user outside ADMIN_EMAILS, "admin")
\* and the body ("none": no JSON, "no_id": no subscription_id, "id").
TriggerRequests ==
    [auth : {"none", "invalid", "user", "admin"},
     body : {"none", "no_id", "id"}]

\* provision_customer (endpoint) before the orchestrator is called: the
\* status the request is refused with, 0 when it is let through.
TriggerEnvelope(req) ==
    IF req.auth \in {"none", "invalid"} THEN 401
    ELSE IF req.auth = "user" THEN 403
    ELSE IF req.body # "id" THEN 400
    ELSE 0

\* The status after the run r: the ValueError of a subscription or product
\* that is not found is answered 400, any other exception 500.
TriggerStatus(r) ==
    IF r.ok THEN 200
    ELSE IF r.hit \in {"not_found", "load"} THEN 400
    ELSE 500

\* The run r of the orchestrator on subscription s takes effect and is
\* remembered as the last run.
RecordRun(s, r) ==
    /\ subs' = r.subs
    /\ customers' = r.customers
    /\ authUsers' = r.authUsers
    /\ astronUsers' = r.astronUsers
    /\ pwCounter' = r.pwCounter
    /\ hist' = [hist EXCEPT !.run =
           [n |-> hist.run.n + 1, sub |-> s, ok |-> r.ok,
            hit |-> r.hit, steps |-> r.steps,
            password |-> r.password,
            firebase_uid |-> r.firebase_uid,
            astron_member_id |-> r.astron_member_id,
            auth |-> "admin", body |-> "id",
            status |-> TriggerStatus(r)]]

\* provision_customer (the admin recovery endpoint): a request that is
\* refused, or one run of the orchestrator on subscription s.
AdminProvision(req, s, fail) ==
    /\ hist.run.n < MaxRuns
    /\ IF TriggerEnvelope(req) = 0
       THEN RecordRun(s, ProvisionCustomer(s, fail))
       ELSE /\ hist' = [hist EXCEPT !.run =
                  [NoRun EXCEPT !.n = hist.run.n + 1,
                                !.sub = s,
                                !.hit = "refused",
                                !.auth = req.auth,
                                !.body = req.body,
                                !.status = TriggerEnvelope(req)]]
            /\ UNCHANGED <<subs, customers, authUsers, astronUsers,
                           pwCounter>>
    /\ UNCHANGED <<ledger, payments, verifs, policy, now, pc, ev, loc, http,
                   co, aux>>

\* create_checkout_session / create_btcpay_invoice, "Find or create
\* customer": the query by e-mail.
CheckoutFind(c) ==
    /\ co[c].pc = "idle"
    /\ \A c2 \in Sessions : c2 < c => co[c2].pc # "idle"
    /\ LET found == CustomersByEmail(customers, "payer@x")
       IN  co' = [co EXCEPT ![c] =
                    IF found = {}
                    THEN [pc |-> "add_customer", customer_id |-> 0]
                    ELSE [pc |-> "add_subscription",
                          customer_id |-> CHOOSE x \in found : TRUE]]
    /\ UNCHANGED <<ledger, subs, payments, verifs, customers, authUsers,
                   astronUsers, pwCounter, policy, now, pc, ev, loc, http,
                   hist, aux>>

\* customers_ref.add(customer_data) when the query found nobody
CheckoutAddCustomer(c) ==
    /\ co[c].pc = "add_customer"
    /\ FreeCustIds(customers) # {}
    /\ LET id == CHOOSE x \in FreeCustIds(customers) :
                     \A y \in FreeCustIds(customers) : x <= y
       IN  /\ customers' = CreateDoc(customers, id,
                  [NoCustomer EXCEPT !.exists = TRUE, !.email = "payer@x"])
           /\ co' = [co EXCEPT ![c] =
                        [pc |-> "add_subscription", customer_id |-> id]]
    /\ UNCHANGED <<ledger, subs, payments, verifs, authUsers, astronUsers,
                   pwCounter, policy, now, pc, ev, loc, http, hist, aux>>

FreeSubIds == {s \in SubIds : ~subs[s].exists}

\* subscriptions.add(subscription_data) and, for a partner offer,
\* manual_verifications.add(verification_data)
CheckoutAddSubscription(c, kind) ==
    /\ co[c].pc = "add_subscription"
    /\ FreeSubIds # {}
    /\ LET s == CHOOSE x \in FreeSubIds : \A y \in FreeSubIds : x <= y
       IN  /\ subs' = CreateDoc(subs, s, CheckedOut(kind, co[c].customer_id))
           /\ verifs' = IF kind \in {"partner", "partner_lead"}
                        THEN Append(verifs, Verification("pending", FALSE, s))
                        ELSE verifs
    /\ co' = [co EXCEPT ![c].pc = "done"]
    /\ UNCHANGED <<ledger, payments, customers, authUsers, astronUsers,
                   pwCounter, policy, now, pc, ev, loc, http, hist, aux>>

\* -------------------------------------------------------- specification
Sigs == {"valid", "invalid", "missing"}

\* The steps of the webhook invocations.
HandlerSteps ==
    \/ \E d \in Deliveries : ReadLedger(d)
    \/ \E d \in Deliveries : CreateLedger(d)
    \/ \E d \in Deliveries : Link(d)
    \/ \E d \in Deliveries : Activate(d)
    \/ \E d \in Deliveries : MarkLeadAsConverted(d)
    \/ \E d \in Deliveries : CreatePayment(d)
    \/ \E d \in Deliveries : ReadPolicy(d)
    \/ \E d \in Deliveries : Branch(d)
    \/ \E d \in Deliveries : MvCheck(d)
    \/ \E d \in Deliveries : MvAdd(d)
    \/ \E d \in Deliveries, fail \in HandlerFailPoints : Provision(d, fail)
    \/ \E d \in Deliveries : Mark(d)
    \/ \E d \in Deliveries : MarkErr(d)
    \/ \E d \in Deliveries : Timeout(d)

\* Every step other than the arrival of a notification.
Steps ==
    \/ HandlerSteps
    \/ FlipPolicy
    \/ Tick
    \/ \E s \in SubIds : Cancel(s)

Next ==
    \/ \E d \in Deliveries, e \in Events, sig \in Sigs : Receive(d, e, sig)
    \/ Steps

Spec == Init /\ [][Next]_vars

\* Deliveries handled one after the other: a notification arrives only
\* when no other invocation is running.
ReceiveSeq(d, e, sig) ==
    /\ \A d2 \in Deliveries : pc[d2] \notin InFlight
    /\ Receive(d, e, sig)

NextSeq ==
    \/ \E d \in Deliveries, e \in Events, sig \in Sigs : ReceiveSeq(d, e, sig)
    \/ Steps

SpecSeq == Init /\ [][NextSeq]_vars

\* The request envelope: requests of every shape arrive one after the
\* other and are handled to their end.
Requests ==
    [provider : {"known", "missing", "unknown"},
     payload : {"json", "garbled", "empty"},
     signature : Sigs]

ReceiveRawSeq(d, e, req) ==
    /\ \A d2 \in Deliveries : pc[d2] \notin InFlight
    /\ ReceiveRaw(d, e, req)

NextEnv ==
    \/ \E d \in Deliveries, e \in AllEvents, req \in Requests :
          ReceiveRawSeq(d, e, req)
    \/ HandlerSteps

SpecEnv == Init /\ [][NextEnv]_vars

\* Checkouts and admin-triggered runs of the orchestrator.
NextProv ==
    \/ \E c \in Sessions : CheckoutFind(c)
    \/ \E c \in Sessions : CheckoutAddCustomer(c)
    \/ \E c \in Sessions, kind \in Checkouts \ {"absent"} :
          CheckoutAddSubscription(c, kind)
    \/ \E req \in TriggerRequests, s \in SubIds, fail \in FailPoints :
          AdminProvision(req, s, fail)

SpecProv == Init /\ [][NextProv]_vars

\* ------------------------------------------------------------ properties
\* The payments recorded for the settlement that event e notifies.
PaymentsOf(e) ==
    {p \in payments : /\ p.payment_provider = e.provider
                      /\ p.provider_payment_id = e.invoice}

HandlerRegion == InFlight \ {"txn_read", "create"}

\* C1: a delivery that finds the ledger entry of its key processed answers
\* 200 "already processed" in that very step, runs no handler and leaves
\* the ledger, subscriptions, payments, verifications and customers as they
\* were; hence an event whose handler ran once has at most one Payment.
DuplicateShortCircuits ==
    /\ [][\A d \in Deliveries :
            ( /\ pc[d] = "txn_read"
              /\ pc'[d] # "txn_read"
              /\ ledger[EventKey(ev[d])].exists
              /\ ledger[EventKey(ev[d])].processed )
            => /\ pc'[d] = "done"
               /\ http'[d] = 200
               /\ loc'[d].result = "already_processed"
               /\ durable' = durable
               /\ hist'.runs = hist.runs]_vars
    /\ [](\A e \in Events :
            hist.runs[EventKey(e)] <= 1 /\ IsSettlement(e) /\ e.paid
            => Cardinality(PaymentsOf(e)) <= 1)

\* A redelivered settlement was short-circuited and its one Payment stands.
DuplicateWitness ==
    \E d \in Deliveries :
        /\ pc[d] = "done"
        /\ loc[d].result = "already_processed"
        /\ IsSettlement(ev[d])
        /\ hist.runs[EventKey(ev[d])] = 1
        /\ Cardinality(PaymentsOf(ev[d])) = 1

\* C2: no step deletes a ledger entry or writes processed back from true
\* to false.
LedgerProcessedSticky ==
    [][\A k \in Keys :
          /\ ledger[k].exists => ledger'[k].exists
          /\ ledger[k].processed => ledger'[k].processed]_vars

\* C3: two invocations for the same key are never both past the ledger
\* read-check-create, i.e. both dispatched to the handler.
LedgerSerializedPerKey ==
    \A d1, d2 \in Deliveries :
        ( /\ d1 # d2
          /\ pc[d1] \in HandlerRegion
          /\ pc[d2] \in HandlerRegion )
        => EventKey(ev[d1]) # EventKey(ev[d2])

\* C4: at most one Payment record per settled processor payment id.
OnePaymentPerSettlement ==
    \A e \in Events : Cardinality(PaymentsOf(e)) <= 1

Terminal == {"cancelled", "expired", "refunded"}

\* C5: no step moves a subscription from a terminal state to active, or
\* from any other state back to payment_pending.
StatusMonotonic ==
    [][\A s \in SubIds :
          /\ subs[s].status \in Terminal => subs'[s].status # "active"
          /\ subs[s].status \in Terminal \cup {"active"}
                => subs'[s].status # "payment_pending"]_vars

\* C6: activate() on a subscription that is already active leaves status
\* and access_granted_at as they were.
ActivateNoOpWhenActive ==
    [][\A d \in Deliveries :
          ( /\ pc[d] = "activate"
            /\ pc'[d] # "activate"
            /\ pc'[d] # "done"
            /\ subs[ev[d].sub].status = "active" )
          => /\ subs'[ev[d].sub].status = subs[ev[d].sub].status
             /\ subs'[ev[d].sub].access_granted_at
                   = subs[ev[d].sub].access_granted_at]_vars

\* C7: the branch an invocation is in is the one its single read of the
\* flag selected, whatever the flag is now, and an invocation never has the
\* effects of both branches.
ToggleSnapshotIsolation ==
    \A d \in Deliveries :
        /\ pc[d] \in {"mv_check", "mv_add"} => ~loc[d].auto_prov_enabled
        /\ pc[d] = "provision" =>
              loc[d].auto_prov_enabled /\ loc[d].should_provision
        /\ Cardinality(hist.branch[d]) <= 1
        /\ pc[d] \in {"mv_add", "provision"} =>
              hist.branch[d] \subseteq
                  {IF loc[d].auto_prov_enabled THEN "auto" ELSE "manual"}

\* The flag was read as disabled and an admin enabled it while the
\* invocation is about to add the manual verification.
ToggleFlippedInFlight ==
    \E d \in Deliveries :
        pc[d] = "mv_add" /\ policy = "on" /\ hist.flips > 0

IsAutoPending(v, sid) ==
    v.status = "pending" /\ v.auto_generated /\ v.subscription_created = sid

\* C8, as claimed: when a settlement handler ends with the policy read as
\* disabled or the per-purchase flag set, a pending auto-generated
\* verification of the subscription exists and the orchestrator did not run.
ManualBranchCreatesVerification ==
    [][\A d \in Deliveries :
          ( /\ pc[d] \in {"branch", "mv_check", "mv_add"}
            /\ pc'[d] = "mark"
            /\ (~loc[d].auto_prov_enabled \/ ~loc[d].should_provision) )
          => /\ \E i \in 1..Len(verifs') : IsAutoPending(verifs'[i], ev[d].sub)
             /\ "auto" \notin hist'.branch[d]]_vars

\* C8, amended: with the policy read as disabled the handler ends with a
\* verification referencing the subscription: the pending auto-generated
\* one it appends, or one that was already there, in which case it adds
\* none.  With the policy enabled and the per-purchase flag set it adds
\* none either.  In all three cases the orchestrator did not run.
ManualBranchOutcome ==
    [][\A d \in Deliveries :
          LET s == ev[d].sub IN
          /\ (pc[d] = "branch" /\ pc'[d] # "branch" /\ pc'[d] # "done") =>
                /\ ~loc[d].auto_prov_enabled => pc'[d] = "mv_check"
                /\ (loc[d].auto_prov_enabled /\ ~loc[d].should_provision) =>
                      pc'[d] = "mark" /\ verifs' = verifs
          /\ (pc[d] = "mv_check" /\ pc'[d] = "mark") =>
                /\ VerifsOfSub(verifs, s) # {}
                /\ verifs' = verifs
          /\ (pc[d] = "mv_check" /\ pc'[d] = "mv_add") =>
                VerifsOfSub(verifs, s) = {}
          /\ (pc[d] = "mv_add" /\ pc'[d] = "mark") =>
                /\ Len(verifs') = Len(verifs) + 1
                /\ IsAutoPending(verifs'[Len(verifs')], s)
          /\ (pc[d] \in {"branch", "mv_check", "mv_add"} /\ pc'[d] = "mark")
                => "auto" \notin hist'.branch[d]]_vars

\* A handler ended on the manual branch and its verification is queued.
ManualBranchWitness ==
    \E d \in Deliveries :
        /\ pc[d] = "done"
        /\ http[d] = 200
        /\ hist.branch[d] = {"manual"}
        /\ \E i \in 1..Len(verifs) : IsAutoPending(verifs[i], ev[d].sub)

\* Invocations that ran their handler to its end on the manual branch.
HandledManually ==
    {d \in Deliveries : pc[d] = "done" /\ http[d] = 200
                          /\ "manual" \in hist.branch[d]}

\* C9, as claimed: after sequential deliveries handled with the policy
\* disabled exactly one pending auto-generated verification references the
\* subscription.
ExactlyOneAutoVerification ==
    \A d \in HandledManually :
        Cardinality({i \in 1..Len(verifs) :
                        IsAutoPending(verifs[i], ev[d].sub)}) = 1

\* C9, amended: after sequential deliveries handled with the policy
\* disabled at most one auto-generated verification references the
\* subscription, and some verification does: exactly one pending
\* auto-generated one when no other verification references it, none when
\* one (a partner-offer verification) already did.
AtMostOneAutoVerificationSeq ==
    \A d \in HandledManually :
        LET s == ev[d].sub
            auto == AutoVerifsOfSub(verifs, s)
            other == VerifsOfSub(verifs, s) \ auto
        IN  /\ Cardinality(auto) <= 1
            /\ other = {} <=> Cardinality(auto) = 1
            /\ \A i \in auto : verifs[i].status = "pending"

\* The same subscription's settlement was handled twice on the manual
\* branch, the second time not short-circuited by the ledger, and one
\* auto-generated verification exists.
RehandledWitness ==
    \E d1, d2 \in HandledManually :
        /\ d1 # d2
        /\ ev[d1].sub = ev[d2].sub
        /\ Cardinality(AutoVerifsOfSub(verifs, ev[d1].sub)) = 1

\* C10: at most one auto-generated verification per subscription_created.
AtMostOneAutoVerification ==
    \A s \in SubIds : Cardinality(AutoVerifsOfSub(verifs, s)) <= 1

\* C11: an invocation that has created the ledger entry of its event and
\* answers the sender answers 200, also when the handler raised.
AlwaysOkAfterLedger ==
    [][\A d \in Deliveries :
          ( /\ pc[d] \in HandlerRegion
            /\ ledger[EventKey(ev[d])].exists
            /\ pc'[d] = "done"
            /\ loc'[d].result # "timeout" )
          => http'[d] = 200]_vars

BadSignature(req) == req.signature \in {"missing", "invalid"}

ResponseCodes ==
    \A d \in Deliveries :
        (pc[d] = "done" /\ loc[d].result # "timeout") =>
            LET req == loc[d].request
                wellAddressed == req.provider = "known"
                                   /\ req.payload # "empty"
            IN  /\ loc[d].result \in {"success", "already_processed"}
                      => http[d] = 200
                /\ loc[d].result = "error" => http[d] = 500
                /\ (wellAddressed /\ BadSignature(req)) => http[d] = 401
                /\ (wellAddressed /\ ~BadSignature(req)
                      /\ req.payload = "garbled") => http[d] = 400
                /\ http[d] \in {200, 400, 401, 500}

\* C14, as claimed: when the orchestrator raises inside a settlement handler,
\* the subscription is left with provisioning_status = failed and the error
\* text, the handler goes on to its end, the ledger entry is marked
\* processed without an error and the answer is 200.
ProvisioningFailureContained ==
    [][\A d \in Deliveries :
          LET s == ev[d].sub
              k == EventKey(ev[d])
          IN  /\ ( /\ pc[d] = "provision"
                    /\ loc'[d].provisioned \notin {"none", "ok"} )
                  => /\ pc'[d] = "mark"
                     /\ subs'[s].provisioning_status = "failed"
                     /\ subs'[s].provisioning_error = loc'[d].provisioned
              /\ ( /\ pc[d] = "mark"
                    /\ loc[d].provisioned \notin {"none", "ok"}
                    /\ pc'[d] = "done"
                    /\ loc'[d].result # "timeout" )
                  => /\ http'[d] = 200
                     /\ ledger'[k].processed
                     /\ ledger'[k].error = ""]_vars

\* C14, amended: when the orchestrator raises from its saga, the
\* subscription is left with provisioning_status = failed and the error
\* text; when it raises before the saga, because the product of the
\* subscription cannot be loaded, provisioning_status and
\* provisioning_error stay as they were.  Either way the handler goes on
\* to its end, the ledger entry is marked processed without an error and
\* the answer is 200.
ProvisioningFailureOutcome ==
    [][\A d \in Deliveries :
          LET s == ev[d].sub
              k == EventKey(ev[d])
              err == loc'[d].provisioned
          IN  /\ (pc[d] = "provision" /\ err \notin {"none", "ok"})
                  => /\ pc'[d] = "mark"
                     /\ err # "load" =>
                          /\ subs'[s].provisioning_status = "failed"
                          /\ subs'[s].provisioning_error = err
                     /\ err = "load" =>
                          /\ subs'[s].provisioning_status
                                = subs[s].provisioning_status
                          /\ subs'[s].provisioning_error
                                = subs[s].provisioning_error
              /\ ( /\ pc[d] = "mark"
                    /\ loc[d].provisioned \notin {"none", "ok"}
                    /\ pc'[d] = "done"
                    /\ loc'[d].result # "timeout" )
                  => /\ http'[d] = 200
                     /\ ledger'[k].processed
                     /\ ledger'[k].error = ""]_vars

\* A settlement whose provisioning failed in the saga was answered 200 and
\* its ledger entry is processed without an error.
ProvisioningFailedWitness ==
    \E d \in Deliveries :
        /\ pc[d] = "done"
        /\ http[d] = 200
        /\ loc[d].result = "success"
        /\ hist.branch[d] = {"auto"}
        /\ subs[ev[d].sub].provisioning_status = "failed"
        /\ subs[ev[d].sub].provisioning_error = "identity"
        /\ ledger[EventKey(ev[d])].processed
        /\ ledger[EventKey(ev[d])].error = ""

\* ---------------------------------------------- orchestrator properties
\* This step is an admin-triggered run of the orchestrator.
Ran == hist'.run.n = hist.run.n + 1

\* The customer record of subscription s.
CustomerOf(s) == customers[subs[s].customer_id]

\* Failures of the collaborator calls of steps 1 to 5.
LoadBearing ==
    {"customer", "password", "identity", "attach", "membership", "magic"}

\* C15: a run in which a call of steps 1 to 5 fails raises, executes no
\* later step and leaves provisioning_status = failed with the error; it
\* never ends with completed.
LoadBearingFailureAborts ==
    [][(Ran /\ hist'.run.hit \in LoadBearing) =>
          LET r == hist'.run IN
          /\ ~r.ok
          /\ \A n \in r.steps : n < StepOf(r.hit)
          /\ subs'[r.sub].provisioning_status = "failed"
          /\ subs'[r.sub].provisioning_error = r.hit]_vars

FullyProvisioned(s) ==
    /\ subs[s].exists
    /\ subs[s].provisioning_status = "completed"
    /\ CustomerOf(s).exists
    /\ CustomerOf(s).generated_password # <<>>
    /\ CustomerOf(s).firebase_uid # 0
    /\ CustomerOf(s).astron_member_id # 0

ExistingAccounts == {m \in Emails : authUsers[m].exists}

\* C16: a run that succeeds on a fully provisioned subscription works with
\* the password, uid and membership id already stored, creates no
\* customer, identity or membership account and leaves completed.
RerunIdempotent ==
    [][(Ran /\ hist'.run.ok /\ FullyProvisioned(hist'.run.sub)) =>
          LET r == hist'.run
              c == CustomerOf(r.sub)
          IN  /\ r.password = Decrypt(c.generated_password)
              /\ r.firebase_uid = c.firebase_uid
              /\ r.astron_member_id = c.astron_member_id
              /\ astronUsers' = astronUsers
              /\ pwCounter' = pwCounter
              /\ {m \in Emails : authUsers'[m].exists} = ExistingAccounts
              /\ {x \in CustIds : customers'[x].exists}
                    = {x \in CustIds : customers[x].exists}
              /\ subs'[r.sub].provisioning_status = "completed"]_vars

\* C17: a run whose step 4 fails after steps 1 to 3 leaves
\* provisioning_status = failed with the error; a later run without
\* failure then ends completed, with the password and the identity of the
\* first run and without generating a password again.
MembershipFailureThenReplay ==
    [][Ran =>
          LET r == hist'.run
              c == CustomerOf(r.sub)
          IN  /\ (r.hit \in {"attach", "membership"}) =>
                    /\ ~r.ok
                    /\ subs'[r.sub].provisioning_status = "failed"
                    /\ subs'[r.sub].provisioning_error = r.hit
              /\ ( /\ r.hit = "none"
                    /\ subs[r.sub].provisioning_status = "failed"
                    /\ subs[r.sub].provisioning_error
                          \in {"attach", "membership"} ) =>
                    /\ r.ok
                    /\ subs'[r.sub].provisioning_status = "completed"
                    /\ r.password = Decrypt(c.generated_password)
                    /\ r.firebase_uid = c.firebase_uid
                    /\ pwCounter' = pwCounter]_vars

\* C18: a run in which the marketing sync or the commission tracking
\* fails still executes step 8 and returns success, with
\* access_granted_at set and provisioning_status = completed.
AdvisoryFailureSwallowed ==
    [][(Ran /\ hist'.run.hit \in {"sync", "affiliate"}) =>
          LET r == hist'.run IN
          /\ r.ok
          /\ 8 \in r.steps
          /\ subs'[r.sub].access_granted_at = now
          /\ subs'[r.sub].access_granted_at > 0
          /\ subs'[r.sub].provisioning_status = "completed"]_vars

\* The last run had its marketing sync or commission tracking fail and
\* completed the subscription all the same.
AdvisoryFailureWitness ==
    /\ hist.run.hit \in {"sync", "affiliate"}
    /\ hist.run.ok
    /\ subs[hist.run.sub].provisioning_status = "completed"
    /\ subs[hist.run.sub].access_granted_at > 0

\* C19: a run whose step 4 finds a membership id on the customer returns
\* that id, creates no membership account and leaves the stored id.
ExistingMembershipReused ==
    [][(Ran /\ 4 \in hist'.run.steps
            /\ CustomerOf(hist'.run.sub).astron_member_id # 0) =>
          LET r == hist'.run
              cid == subs[r.sub].customer_id
          IN  /\ r.astron_member_id = customers[cid].astron_member_id
              /\ astronUsers' = astronUsers
              /\ customers'[cid].astron_member_id
                    = customers[cid].astron_member_id]_vars

\* C20: no two customer records have the same e-mail.
CustomerEmailUnique ==
    \A x, y \in CustIds :
        (x # y /\ customers[x].exists /\ customers[y].exists)
        => customers[x].email # customers[y].email

\* ------------------------------------------------ the derived ledger key
\* The empty database: the utilities below touch none of its collections.
InitEmpty ==
    /\ Init
    /\ policy = "missing"
    /\ \A s \in SubIds : ~subs[s].exists

MaxKeyLen == 2          \* characters of an invoice id or a type name
MaxDerived == 2         \* notifications whose key is derived

\* Strings are sequences of characters.
Strings(chars) == UNION {[1..n -> chars] : n \in 1..MaxKeyLen}

\* A field the payload does not carry.
Absent == <<>>

\* Invoice ids; type names, which BTCPay writes without a separator
\* (InvoiceSettled, InvoiceExpired, InvoiceInvalid, ...).
InvoiceIds == Strings({"a", "u", "_"}) \cup {Absent}
TypeNames == Strings({"S", "u"}) \cup {Absent}

\* event.get(field, 'unknown'); the letter u stands for the word
GetOrUnknown(field) == IF field = Absent THEN <<"u">> ELSE field

\* Variant: the two parts are joined without the separator.
DerivedKeyUnseparated(invoiceId, type) ==
    GetOrUnknown(invoiceId) \o GetOrUnknown(type)

\* f"{event.get('invoiceId', 'unknown')}_{event.get('type', 'unknown')}"
DerivedKey(invoiceId, type) ==
    GetOrUnknown(invoiceId) \o <<"_">> \o GetOrUnknown(type)

\* process_payment_webhook derives the event_id of a BTCPay notification.
DeriveKey(invoiceId, type) ==
    /\ Cardinality(keyed) < MaxDerived
    /\ keyed' = keyed \cup
          {[invoiceId |-> invoiceId, type |-> type,
            event_id |-> DerivedKey(invoiceId, type)]}
    /\ UNCHANGED <<ledger, subs, payments, verifs, customers, authUsers,
                   astronUsers, pwCounter, policy, now, pc, ev, loc, http,
                   hist, co, adm, retry, limits,
                   orch>>

NextKey == \E id \in InvoiceIds, t \in TypeNames : DeriveKey(id, t)

SpecKey == InitEmpty /\ [][NextKey]_vars

MaxCallSeconds == 25    \* the longest a single invocation takes

Transient == {"DeadlineExceeded", "ServiceUnavailable", "ResourceExhausted"}
Permanent == {"PermissionDenied", "InvalidArgument", "NotFound"}

\* What one invocation of the wrapped operation does, and how long it takes.
Outcomes == {"success"} \cup Transient \cup Permanent
Durations == {0, MaxCallSeconds}

\* Variant: every exception is retried.
RetryIfAnyError(outcome) == outcome # "success"

\* retry = retry_if_exception_type((DeadlineExceeded, ServiceUnavailable,
\* ResourceExhausted))
RetryIf(outcome) == outcome \in Transient

\* stop_after_attempt(3), stop_after_delay(25)
StopAfterAttempt == 3
StopAfterDelay == 25

\* Variant: the attempt at which the limit is reached is followed by one
\* more.
StopOneLater(attempt_number, seconds_since_start) ==
    \/ attempt_number > StopAfterAttempt
    \/ seconds_since_start >= StopAfterDelay

\* stop = (stop_after_attempt(3) | stop_after_delay(25))
Stop(attempt_number, seconds_since_start) ==
    \/ attempt_number >= StopAfterAttempt
    \/ seconds_since_start >= StopAfterDelay

RECURSIVE Pow2(_)
Pow2(n) == IF n = 0 THEN 1 ELSE 2 * Pow2(n - 1)

Min(a, b) == IF a <= b THEN a ELSE b
Max(a, b) == IF a >= b THEN a ELSE b

\* wait = wait_exponential(multiplier=1, min=1, max=10)
WaitMin == 1
WaitMax == 10
Wait(attempt_number) ==
    Max(WaitMin, Min(Pow2(attempt_number - 1), WaitMax))

\* The wrapped function is called: tenacity starts with attempt 1.
RetryCall ==
    /\ retry.pc = "idle"
    /\ retry' = [NoRetry EXCEPT !.pc = "calling", !.attempt_number = 1]
    /\ UNCHANGED <<ledger, subs, payments, verifs, customers, authUsers,
                   astronUsers, pwCounter, policy, now, pc, ev, loc, http,
                   hist, co, adm, keyed, limits,
                   orch>>

\* One invocation of the operation and what tenacity does with its
\* outcome: the value is returned; an exception that is not retried, or
\* one at which the stop condition holds, is raised (reraise=True: the
\* last exception itself); otherwise tenacity sleeps.
Invoke(outcome, seconds) ==
    /\ retry.pc = "calling"
    /\ LET since == retry.elapsed + seconds
       IN  retry' =
             [retry EXCEPT
                !.outcomes = Append(@, outcome),
                !.elapsed = since,
                !.pc = IF outcome = "success" THEN "returned"
                       ELSE IF ~RetryIf(outcome) THEN "raised"
                       ELSE IF Stop(retry.attempt_number, since)
                       THEN "raised"
                       ELSE "sleeping",
                !.result = IF outcome = "success" THEN "value"
                           ELSE IF ~RetryIf(outcome) THEN outcome
                           ELSE IF Stop(retry.attempt_number, since)
                           THEN outcome
                           ELSE "none"]
    /\ UNCHANGED <<ledger, subs, payments, verifs, customers, authUsers,
                   astronUsers, pwCounter, policy, now, pc, ev, loc, http,
                   hist, co, adm, keyed, limits,
                   orch>>

\* before_sleep, the wait, and the next attempt
Sleep ==
    /\ retry.pc = "sleeping"
    /\ retry' = [retry EXCEPT
                    !.elapsed = @ + Wait(retry.attempt_number),
                    !.attempt_number = @ + 1,
                    !.pc = "calling"]
    /\ UNCHANGED <<ledger, subs, payments, verifs, customers, authUsers,
                   astronUsers, pwCounter, policy, now, pc, ev, loc, http,
                   hist, co, adm, keyed, limits,
                   orch>>

NextRetry ==
    \/ RetryCall
    \/ \E o \in Outcomes, t \in Durations : Invoke(o, t)
    \/ Sleep

SpecRetry == InitEmpty /\ [][NextRetry]_vars

\* The invocations made so far.
Invocations == Len(retry.outcomes)

\* C28: the operation is invoked at most 3 times; when every invocation
\* failed with a transient error and no other follows, the last of these
\* errors is raised; an invocation that succeeds is the last one, and the
\* value is returned right after it.
RetryBounded ==
    /\ Invocations <= 3
    /\ (retry.pc = "raised"
          /\ retry.outcomes[Invocations] \in Transient) =>
            /\ retry.result = retry.outcomes[Invocations]
            /\ \A k \in 1..Invocations : retry.outcomes[k] \in Transient
    /\ (Invocations = 3 /\ retry.outcomes[3] \in Transient) =>
            retry.pc = "raised"
    /\ \A k \in 1..Invocations :
          retry.outcomes[k] = "success" =>
            /\ k = Invocations
            /\ retry.pc = "returned"
            /\ retry.result = "value"

\* Three invocations failed with transient errors within the 25 seconds
\* and the third error was raised.
RetryExhaustedWitness ==
    /\ retry.pc = "raised"
    /\ Invocations = 3
    /\ retry.elapsed < 25
    /\ retry.result = "ServiceUnavailable"
    /\ \A k \in 1..3 : retry.outcomes[k] \in Transient

\* The third invocation succeeded after two transient errors.
RetryThirdWitness ==
    /\ retry.pc = "returned"
    /\ Invocations = 3
    /\ retry.result = "value"

\* C29: an invocation that fails with a permanent error is the last one:
\* the error is raised at once, so an operation that fails with it on the
\* first invocation is invoked exactly once.
PermanentNotRetried ==
    \A k \in 1..Invocations :
        retry.outcomes[k] \in Permanent =>
            /\ k = Invocations
            /\ retry.pc = "raised"
            /\ retry.result = retry.outcomes[k]

\* The first invocation failed with permission denied, which was raised.
PermanentWitness ==
    /\ retry.pc = "raised"
    /\ retry.outcomes = <<"PermissionDenied">>
    /\ retry.result = "PermissionDenied"

\* ---------------------------------------------------------- RateLimiter
MaxLimit == 2           \* the limit the checks are made with

\* window of check_ip_limit / check_email_limit, in clock values
Window == 2

\* Variant: the check that reaches the limit is still let through.
RefusedAbove(current_count, limit) == current_count > limit

\* if current_count >= limit: return False, 0
Refused(current_count, limit) == current_count >= limit

\* valid_attempts = [ts for ts in attempts if ts > window_start]
ValidAttempts(attempts, window_start) ==
    SelectSeq(attempts, LAMBDA ts : ts > window_start)

\* update_in_transaction of check_ip_limit and check_email_limit: what is
\* returned and the document as the transaction leaves it
SlidingCheck(doc, t, limit) ==
    IF ~doc.exists
    THEN [allowed |-> TRUE, remaining |-> limit - 1,
          doc |-> [NoLimitDoc EXCEPT !.exists = TRUE, !.attempts = <<t>>]]
    ELSE IF Refused(Len(ValidAttempts(doc.attempts, t - Window)), limit)
    THEN [allowed |-> FALSE, remaining |-> 0, doc |-> doc]
    ELSE [allowed |-> TRUE,
          remaining |->
              limit - Len(ValidAttempts(doc.attempts, t - Window)) - 1,
          doc |-> [doc EXCEPT !.attempts =
                      Append(ValidAttempts(doc.attempts, t - Window), t)]]

\* update_in_transaction of check_global_limit
CountingCheck(doc, limit) ==
    IF ~doc.exists
    THEN [allowed |-> TRUE, remaining |-> limit - 1,
          doc |-> [NoLimitDoc EXCEPT !.exists = TRUE, !.count = 1]]
    ELSE IF Refused(doc.count, limit)
    THEN [allowed |-> FALSE, remaining |-> 0, doc |-> doc]
    ELSE [allowed |-> TRUE, remaining |-> limit - doc.count - 1,
          doc |-> [doc EXCEPT !.count = @ + 1]]

\* except Exception: the request is allowed ("fail open for availability")
FailOpen(doc, limit) ==
    [allowed |-> TRUE, remaining |-> limit, doc |-> doc]

\* A check of the document id at the clock value of the limiter, with the
\* outcome r: the document is written and the check is remembered.
Checked(id, stored, r) ==
    /\ limits' = [limits EXCEPT
                    !.docs[id] = r.doc,
                    !.log = Append(@, [doc_id |-> id, t |-> limits.clock,
                                       stored |-> stored,
                                       allowed |-> r.allowed,
                                       remaining |-> r.remaining])]
    /\ UNCHANGED <<ledger, subs, payments, verifs, customers, authUsers,
                   astronUsers, pwCounter, policy, now, pc, ev, loc, http,
                   hist, co, adm, keyed, retry,
                   orch>>

\* check_ip_limit(ip, limit); store: the transaction went through
CheckIpLimit(ip, store) ==
    /\ Len(limits.log) < MaxChecks
    /\ Checked(DocId("ip", ip, limits.clock), store,
               IF store
               THEN SlidingCheck(limits.docs[DocId("ip", ip, limits.clock)],
                                 limits.clock, MaxLimit)
               ELSE FailOpen(limits.docs[DocId("ip", ip, limits.clock)],
                             MaxLimit))

\* check_email_limit(email, limit)
CheckEmailLimit(email, store) ==
    /\ Len(limits.log) < MaxChecks
    /\ Checked(DocId("email", email, limits.clock), store,
               IF store
               THEN SlidingCheck(
                        limits.docs[DocId("email", email, limits.clock)],
                        limits.clock, MaxLimit)
               ELSE FailOpen(limits.docs[DocId("email", email, limits.clock)],
                             MaxLimit))

\* check_global_limit(limit)
CheckGlobalLimit(store) ==
    /\ Len(limits.log) < MaxChecks
    /\ Checked(DocId("global", "", limits.clock), store,
               IF store
               THEN CountingCheck(
                        limits.docs[DocId("global", "", limits.clock)],
                        MaxLimit)
               ELSE FailOpen(limits.docs[DocId("global", "", limits.clock)],
                             MaxLimit))

\* datetime.now() advances.
LimiterTick ==
    /\ limits.clock < MaxClock
    /\ limits' = [limits EXCEPT !.clock = @ + 1]
    /\ UNCHANGED <<ledger, subs, payments, verifs, customers, authUsers,
                   astronUsers, pwCounter, policy, now, pc, ev, loc, http,
                   hist, co, adm, keyed, retry,
                   orch>>

NextLimit ==
    \/ \E ip \in Ips, store \in BOOLEAN : CheckIpLimit(ip, store)
    \/ \E m \in RawEmails, store \in BOOLEAN : CheckEmailLimit(m, store)
    \/ \E store \in BOOLEAN : CheckGlobalLimit(store)
    \/ LimiterTick

SpecLimit == InitEmpty /\ [][NextLimit]_vars

\* The checks before check i that fall into its window on its key: the
\* earlier checks of the same document that are at most a window old (a
\* global document is one minute's).
InWindow(i) ==
    {j \in 1..(i - 1) :
        /\ limits.log[j].doc_id = limits.log[i].doc_id
        /\ limits.log[i].doc_id[1] # "global"
              => limits.log[j].t > limits.log[i].t - Window}

\* This step is a check.
Checks == Len(limits'.log) = Len(limits.log) + 1

\* C30, as claimed: a check preceded in its window by fewer than L allowed
\* checks of its key is allowed and, being the k-th, returns L - k; any
\* other is refused with 0 and writes nothing; no check writes the document
\* of another key.
LimiterCounts ==
    /\ [](\A i \in 1..Len(limits.log) :
            LET c == limits.log[i]
                n == Cardinality({j \in InWindow(i) : limits.log[j].allowed})
            IN  /\ c.allowed <=> n < MaxLimit
                /\ c.remaining = IF c.allowed THEN MaxLimit - (n + 1) ELSE 0)
    /\ [][Checks =>
            LET c == limits'.log[Len(limits'.log)]
            IN  /\ ~c.allowed => limits'.docs = limits.docs
                /\ \A id \in DocIds \ {c.doc_id} :
                      limits'.docs[id] = limits.docs[id]]_vars

\* C30, amended: a check whose transaction goes through and that is
\* preceded in its window by fewer than L recorded checks of its key is
\* allowed, is recorded and, being the k-th recorded one, returns L - k;
\* with L recorded ones before it, it is refused with 0 and writes
\* nothing.  A check whose transaction fails is allowed with remaining = L
\* and writes nothing.  No check writes the document of another key.
LimiterCountsStored ==
    /\ [](\A i \in 1..Len(limits.log) :
            LET c == limits.log[i]
                n == Cardinality({j \in InWindow(i) :
                        limits.log[j].stored /\ limits.log[j].allowed})
            IN  IF c.stored
                THEN /\ c.allowed <=> n < MaxLimit
                     /\ c.remaining =
                          IF c.allowed THEN MaxLimit - (n + 1) ELSE 0
                ELSE c.allowed /\ c.remaining = MaxLimit)
    /\ [][Checks =>
            LET c == limits'.log[Len(limits'.log)]
            IN  /\ (~c.allowed \/ ~c.stored) => limits'.docs = limits.docs
                /\ (c.allowed /\ c.stored) =>
                      limits'.docs[c.doc_id] # limits.docs[c.doc_id]
                /\ \A id \in DocIds \ {c.doc_id} :
                      limits'.docs[id] = limits.docs[id]]_vars

\* A key was checked L times and then refused, and a check of another key
\* after that was allowed as the first of its window.
LimiterWitness ==
    \E i, j \in 1..Len(limits.log) :
        /\ i < j
        /\ limits.log[i].stored /\ ~limits.log[i].allowed
        /\ limits.log[i].remaining = 0
        /\ limits.log[j].stored /\ limits.log[j].allowed
        /\ limits.log[j].doc_id # limits.log[i].doc_id
        /\ limits.log[j].remaining = MaxLimit - 1

\* --------------------------------------------------- unhandled types
\* C24: an invocation whose event has no handler goes from the creation
\* of its ledger entry straight to marking it, writes no subscription,
\* payment, verification or customer, and ends with the ledger entry
\* processed without an error and the answer 200.
UnhandledIsSuccess ==
    /\ [](\A d \in Deliveries :
            (ev[d] # NoEvent /\ ~HasHandler(ev[d]))
            => pc[d] \in {"txn_read", "create", "mark", "done"})
    /\ [][\A d \in Deliveries :
            ( /\ ev[d] # NoEvent
              /\ ~HasHandler(ev[d])
              /\ pc[d] \in {"create", "mark"}
              /\ pc'[d] # pc[d] )
            => /\ <<subs, payments, verifs, customers>>'
                    = <<subs, payments, verifs, customers>>
               /\ (pc[d] = "mark" /\ loc'[d].result # "timeout") =>
                    /\ http'[d] = 200
                    /\ loc'[d].result = "success"
                    /\ ledger'[EventKey(ev[d])].processed
                    /\ ledger'[EventKey(ev[d])].error = ""]_vars

\* A notification of an unhandled type was answered 200 and its ledger
\* entry is processed without an error.
UnhandledWitness ==
    \E d \in Deliveries :
        /\ ev[d] \in UnhandledEvents
        /\ pc[d] = "done"
        /\ http[d] = 200
        /\ loc[d].result = "success"
        /\ ledger[EventKey(ev[d])].processed
        /\ ledger[EventKey(ev[d])].error = ""

\* ------------------------------------------- admin provisioning trigger
\* C27: the endpoint answers 200 to an admin's request for an existing
\* subscription whose run succeeds, 400 without a usable subscription_id,
\* 404 for a subscription that does not exist, 403 to a user who is not an
\* admin, and 500 when the run fails.
TriggerResponses ==
    hist.run.n > 0 =>
        LET r == hist.run
            asked == r.auth = "admin" /\ r.body = "id"
        IN  /\ (asked /\ r.ok) => r.status = 200
            /\ (r.auth = "admin" /\ r.body # "id") => r.status = 400
            /\ (asked /\ r.hit = "not_found") => r.status = 404
            /\ r.auth = "user" => r.status = 403
            /\ (asked /\ ~r.ok /\ r.hit # "not_found") => r.status = 500

\* ------------------------------------------------- the verification queue
\* How a queued verification came about: "auto" by a settlement handled
\* with the policy disabled, "partner" by the checkout of a partner offer.
QueueKinds == {"auto", "partner"}

Queues == UNION {[1..n -> QueueKinds] : n \in 1..MaxQueue}

\* Subscription ids: those of the queue and one for every approval.
AdminSubIds == 1..(MaxQueue + MaxAdminOps)

\* The subscription of a queued verification: activated by the settlement
\* handler, or as the checkout left it.
QueuedSub(kind) ==
    IF kind = "auto"
    THEN [CheckedOut("plain", 1) EXCEPT !.status = "active",
                                        !.access_granted_at = 1]
    ELSE CheckedOut("partner", 1)

\* The state the admin operations start from: the subscriptions 1..n of
\* one customer were checked out and, those of kind "auto", settled by
\* BTCPay with the policy disabled; their verifications are pending.  The
\* webhook invocations that handled the settlements are over and are not
\* part of the state.
InitAdmin ==
    \E q \in Queues :
        /\ ledger = [k \in Keys |->
              IF \E s \in 1..Len(q) :
                    q[s] = "auto" /\ k = <<s, "InvoiceSettled">>
              THEN [exists |-> TRUE, processed |-> TRUE, error |-> ""]
              ELSE NoEntry]
        /\ subs = [s \in AdminSubIds |->
                     IF s <= Len(q) THEN QueuedSub(q[s]) ELSE NoSub]
        /\ payments =
              {[id |-> PaymentId(s, 1), subscription_id |-> s,
                payment_provider |-> "btcpay", provider_payment_id |-> s] :
                 s \in {x \in 1..Len(q) : q[x] = "auto"}}
        /\ verifs = [i \in 1..Len(q) |->
                       IF q[i] = "auto" THEN AutoVerification(i)
                       ELSE Verification("pending", FALSE, i)]
        /\ customers = [c \in CustIds |->
                     IF c = 1
                     THEN [NoCustomer EXCEPT !.exists = TRUE,
                                             !.email = EmailOfSub(1)]
                     ELSE NoCustomer]
        /\ authUsers = [m \in Emails |-> NoUser]
        /\ astronUsers = 0
        /\ pwCounter = 0
        /\ policy = "missing"
        /\ now = 1
        /\ pc = [d \in Deliveries |-> "idle"]
        /\ ev = [d \in Deliveries |-> NoEvent]
        /\ loc = [d \in Deliveries |-> NoLocals]
        /\ http = [d \in Deliveries |-> 0]
        /\ hist = NoHist
        /\ co = [c \in Sessions |-> NoCheckout]
        /\ adm = [a \in AdminOps |-> NoOp]
        /\ keyed = {}
        /\ retry = NoRetry
        /\ limits = NoLimits
        /\ orch = [r \in RunIds |-> NoOrch]

\* Who calls: nobody signed in, a signed-in user who is no admin, an admin
\* named in every endpoint's list, and the admin named only in the list of
\* bulk_approve_verifications.
Callers == {"anonymous", "user", "admin", "bulk_admin"}

\* Variant: every signed-in user passes.
AdminEmailsAnyone(kind) == Callers

\* admin_emails of the three endpoints
AdminEmails(kind) ==
    IF kind = "bulk" THEN {"admin", "bulk_admin"} ELSE {"admin"}

\* if not req.auth: UNAUTHENTICATED; user.email not in admin_emails (or
\* any exception of the lookup): PERMISSION_DENIED
AuthError(kind, caller) ==
    IF caller = "anonymous" THEN "unauthenticated"
    ELSE IF caller \notin AdminEmails(kind) THEN "permission_denied"
    ELSE "none"

\* The operation ends with the answer `result`.
Ended(op, result) == [op EXCEPT !.pc = "done", !.result = result]

\* The call of an endpoint up to its first database operation: the caller
\* is checked, then the arguments (v = 0: no verificationId).
Called(a, kind, caller, v) ==
    /\ adm' = [adm EXCEPT ![a] =
          LET op == [NoOp EXCEPT !.kind = kind, !.caller = caller, !.v = v]
          IN  IF AuthError(kind, caller) # "none"
              THEN Ended(op, AuthError(kind, caller))
              ELSE IF kind # "bulk" /\ v = 0
              THEN Ended(op, "invalid_argument")
              ELSE [op EXCEPT !.pc = IF kind = "bulk" THEN "query"
                                     ELSE "read"]]
    /\ UNCHANGED <<ledger, subs, payments, verifs, customers, authUsers,
                   astronUsers, pwCounter, policy, now, pc, ev, loc, http,
                   hist, co, keyed, retry, limits,
                   orch>>

Idle(a) ==
    /\ adm[a].pc = "idle"
    /\ \A a2 \in AdminOps : a2 < a => adm[a2].pc # "idle"

\* approve_manual_verification
ApproveVerification(a, caller, v) ==
    /\ Idle(a)
    /\ Called(a, "approve", caller, v)

\* reject_manual_verification
RejectVerification(a, caller, v) ==
    /\ Idle(a)
    /\ Called(a, "reject", caller, v)

\* bulk_approve_verifications
BulkApproveVerifications(a, caller) ==
    /\ Idle(a)
    /\ Called(a, "bulk", caller, 0)

\* verification_ref.get(); NOT_FOUND; status != 'pending':
\* FAILED_PRECONDITION
ReadVerification(a) ==
    /\ adm[a].pc = "read"
    /\ adm' = [adm EXCEPT ![a] =
          IF adm[a].v > Len(verifs) THEN Ended(@, "not_found")
          ELSE IF verifs[adm[a].v].status # "pending"
          THEN Ended(@, "failed_precondition")
          ELSE [@ EXCEPT !.pc = "update"]]
    /\ UNCHANGED <<ledger, subs, payments, verifs, customers, authUsers,
                   astronUsers, pwCounter, policy, now, pc, ev, loc, http,
                   hist, co, keyed, retry, limits,
                   orch>>

\* approve: verification_ref.update({'status': 'approved', ...})
ApproveUpdate(a) ==
    /\ adm[a].pc = "update"
    /\ adm[a].kind = "approve"
    /\ verifs' = [verifs EXCEPT ![adm[a].v].status = "approved"]
    /\ adm' = [adm EXCEPT ![a].pc = "create_sub"]
    /\ UNCHANGED <<ledger, subs, payments, customers, authUsers,
                   astronUsers, pwCounter, policy, now, pc, ev, loc, http,
                   hist, co, keyed, retry, limits,
                   orch>>

\* reject: verification_ref.update({'status': 'rejected', ...})
RejectUpdate(a) ==
    /\ adm[a].pc = "update"
    /\ adm[a].kind = "reject"
    /\ verifs' = [verifs EXCEPT ![adm[a].v].status = "rejected"]
    /\ adm' = [adm EXCEPT ![a] = Ended(@, "ok")]
    /\ UNCHANGED <<ledger, subs, payments, customers, authUsers,
                   astronUsers, pwCounter, policy, now, pc, ev, loc, http,
                   hist, co, keyed, retry, limits,
                   orch>>

\* subscriptions.document(): an id no subscription has
NewSubId == CHOOSE s \in AdminSubIds :
                /\ ~subs[s].exists
                /\ \A t \in AdminSubIds : ~subs[t].exists => s <= t

\* customer_id = str(uuid.uuid4()): an id no customer has
NewCustId == CHOOSE c \in FreeCustIds(customers) :
                \A x \in FreeCustIds(customers) : c <= x

\* Variant: a verification that references a subscription is approved for
\* that subscription.
ApproveReusesSubscription(a) ==
    /\ adm[a].pc = "create_sub"
    /\ \E s \in AdminSubIds : ~subs[s].exists
    /\ FreeCustIds(customers) # {}
    /\ IF verifs[adm[a].v].subscription_created # 0
       THEN /\ UNCHANGED subs
            /\ adm' = [adm EXCEPT
                  ![a].pc = "provision",
                  ![a].sub = verifs[adm[a].v].subscription_created]
       ELSE /\ subs' = CreateDoc(subs, NewSubId,
                  [NoSub EXCEPT !.exists = TRUE,
                                !.status = "payment_pending",
                                !.customer_id = NewCustId])
            /\ adm' = [adm EXCEPT ![a].pc = "provision",
                                  ![a].sub = NewSubId]
    /\ UNCHANGED <<ledger, payments, verifs, customers, authUsers,
                   astronUsers, pwCounter, policy, now, pc, ev, loc, http,
                   hist, co, keyed, retry, limits, orch>>

\* approve: subscription_ref.set(subscription_data), a payment_pending
\* subscription of the verification's e-mail
ApproveCreateSubscription(a) ==
    /\ adm[a].pc = "create_sub"
    /\ \E s \in AdminSubIds : ~subs[s].exists
    /\ FreeCustIds(customers) # {}
    /\ subs' = CreateDoc(subs, NewSubId,
                  [NoSub EXCEPT !.exists = TRUE,
                                !.status = "payment_pending",
                                !.customer_id = NewCustId])
    /\ adm' = [adm EXCEPT ![a].pc = "provision", ![a].sub = NewSubId]
    /\ UNCHANGED <<ledger, payments, verifs, customers, authUsers,
                   astronUsers, pwCounter, policy, now, pc, ev, loc, http,
                   hist, co, keyed, retry, limits,
                   orch>>

\* The failures an admin operation's run of the orchestrator is given.
AdminFailPoints == {"none", "identity", "membership"}

\* The writes of the run r of the orchestrator.
RunWrites(r) ==
    /\ subs' = r.subs
    /\ customers' = r.customers
    /\ authUsers' = r.authUsers
    /\ astronUsers' = r.astronUsers
    /\ pwCounter' = r.pwCounter

\* approve: provisioning_service.provision_customer(subscription_id); an
\* exception leaves the endpoint as INTERNAL
Approved(a, r) ==
    /\ RunWrites(r)
    /\ adm' = [adm EXCEPT ![a] =
          IF r.ok THEN [@ EXCEPT !.pc = "link", !.run = "ok"]
          ELSE Ended([@ EXCEPT !.run = r.hit], "internal")]

\* Variant: a failed run puts the verification back in the queue.
Reverted(a, r) ==
    /\ Approved(a, r)
    /\ verifs' = IF r.ok THEN verifs
                 ELSE [verifs EXCEPT ![adm[a].v].status = "pending"]

ApproveProvisionReverting(a, fail) ==
    /\ adm[a].pc = "provision"
    /\ Reverted(a, ProvisionCustomer(adm[a].sub, fail))
    /\ UNCHANGED <<ledger, payments, policy, now, pc, ev, loc, http,
                   hist, co, keyed, retry, limits, orch>>

ApproveProvision(a, fail) ==
    /\ adm[a].pc = "provision"
    /\ Approved(a, ProvisionCustomer(adm[a].sub, fail))
    /\ UNCHANGED <<ledger, payments, verifs, policy, now, pc, ev, loc, http,
                   hist, co, keyed, retry, limits,
                   orch>>

\* approve: verification_ref.update({'subscription_created':
\* subscription_id})
ApproveLink(a) ==
    /\ adm[a].pc = "link"
    /\ verifs' = [verifs EXCEPT
                     ![adm[a].v].subscription_created = adm[a].sub]
    /\ adm' = [adm EXCEPT ![a] = Ended(@, "ok")]
    /\ UNCHANGED <<ledger, subs, payments, customers, authUsers,
                   astronUsers, pwCounter, policy, now, pc, ev, loc, http,
                   hist, co, keyed, retry, limits,
                   orch>>

\* Variant: the query selects every pending verification.
RECURSIVE PendingAny(_, _)
PendingAny(vs, i) ==
    IF i > Len(vs) THEN <<>>
    ELSE (IF vs[i].status = "pending"
          THEN <<[id |-> i,
                  subscription_created |-> vs[i].subscription_created]>>
          ELSE <<>>)
         \o PendingAny(vs, i + 1)

\* where('status', '==', 'pending').where('auto_generated', '==', True)
\* .stream(): the documents as they are read, in the order of their ids
RECURSIVE PendingAuto(_, _)
PendingAuto(vs, i) ==
    IF i > Len(vs) THEN <<>>
    ELSE (IF vs[i].status = "pending" /\ vs[i].auto_generated
          THEN <<[id |-> i,
                  subscription_created |-> vs[i].subscription_created]>>
          ELSE <<>>)
         \o PendingAuto(vs, i + 1)

\* bulk: the query; without a pending verification the zero counts are
\* returned
BulkQuery(a) ==
    /\ adm[a].pc = "query"
    /\ adm' = [adm EXCEPT ![a] =
          IF PendingAuto(verifs, 1) = <<>> THEN Ended(@, "ok")
          ELSE [@ EXCEPT !.pc = "bulk_provision",
                         !.items = PendingAuto(verifs, 1),
                         !.i = 1]]
    /\ UNCHANGED <<ledger, subs, payments, verifs, customers, authUsers,
                   astronUsers, pwCounter, policy, now, pc, ev, loc, http,
                   hist, co, keyed, retry, limits,
                   orch>>

\* Variant: the first failure ends the loop.
BulkAbort(i, n) == n + 1

\* for verification in pending_verifications: the index after item i of n
BulkContinue(i, n) == i + 1

\* The loop goes on after the item at hand, or the counts are returned.
BulkNext(op) ==
    IF BulkContinue(op.i, Len(op.items)) > Len(op.items)
    THEN Ended([op EXCEPT !.i = BulkContinue(op.i, Len(op.items))], "ok")
    ELSE [op EXCEPT !.i = BulkContinue(op.i, Len(op.items)),
                    !.pc = "bulk_provision"]

\* except Exception: errors.append, fail_count += 1
BulkFailed(op, error) ==
    BulkNext([op EXCEPT !.run = error,
                        !.fail_count = @ + 1,
                        !.errors = Append(@, [id |-> op.items[op.i].id,
                                              error |-> error])])

\* bulk, one item: without a subscription_created the item is counted as
\* failed; otherwise the orchestrator runs on it, and when it raises, the
\* error is written to the verification
BulkProvisioned(a, r) ==
    LET item == adm[a].items[adm[a].i] IN
    IF item.subscription_created = 0
    THEN /\ adm' = [adm EXCEPT ![a] = BulkFailed(@, "no_subscription")]
         /\ UNCHANGED <<subs, customers, authUsers, astronUsers, pwCounter,
                        verifs>>
    ELSE /\ RunWrites(r)
         /\ IF r.ok
            THEN /\ adm' = [adm EXCEPT ![a].pc = "bulk_update",
                                       ![a].run = "ok"]
                 /\ UNCHANGED verifs
            ELSE /\ verifs' = [verifs EXCEPT
                                  ![item.id].provisioning_error = r.hit]
                 /\ adm' = [adm EXCEPT ![a] = BulkFailed(@, r.hit)]

BulkProvision(a, fail) ==
    /\ adm[a].pc = "bulk_provision"
    /\ BulkProvisioned(a,
          ProvisionCustomer(
              IF adm[a].items[adm[a].i].subscription_created = 0 THEN 1
              ELSE adm[a].items[adm[a].i].subscription_created,
              fail))
    /\ UNCHANGED <<ledger, payments, policy, now, pc, ev, loc, http,
                   hist, co, keyed, retry, limits,
                   orch>>

\* bulk: verification_ref.update({'status': 'approved', ...}),
\* success_count += 1
BulkUpdate(a) ==
    /\ adm[a].pc = "bulk_update"
    /\ verifs' = [verifs EXCEPT
                     ![adm[a].items[adm[a].i].id].status = "approved"]
    /\ adm' = [adm EXCEPT ![a] =
                  BulkNext([@ EXCEPT !.success_count = @ + 1])]
    /\ UNCHANGED <<ledger, subs, payments, customers, authUsers,
                   astronUsers, pwCounter, policy, now, pc, ev, loc, http,
                   hist, co, keyed, retry, limits,
                   orch>>

NextAdmin ==
    \/ \E a \in AdminOps, c \in Callers, v \in 0..MaxQueue :
          ApproveVerification(a, c, v)
    \/ \E a \in AdminOps, c \in Callers, v \in 0..MaxQueue :
          RejectVerification(a, c, v)
    \/ \E a \in AdminOps, c \in Callers : BulkApproveVerifications(a, c)
    \/ \E a \in AdminOps : ReadVerification(a)
    \/ \E a \in AdminOps : ApproveUpdate(a)
    \/ \E a \in AdminOps : RejectUpdate(a)
    \/ \E a \in AdminOps : ApproveCreateSubscription(a)
    \/ \E a \in AdminOps, fail \in AdminFailPoints : ApproveProvision(a, fail)
    \/ \E a \in AdminOps : ApproveLink(a)
    \/ \E a \in AdminOps : BulkQuery(a)
    \/ \E a \in AdminOps, fail \in AdminFailPoints : BulkProvision(a, fail)
    \/ \E a \in AdminOps : BulkUpdate(a)

SpecAdmin == InitAdmin /\ [][NextAdmin]_vars

\* ------------------------------------------ verification queue properties
\* C21: the status of a verification changes only from pending, to
\* approved or rejected, and never again afterwards; an approve or reject
\* that reads a verification that is not pending is refused and writes
\* nothing.
VerificationStatusTerminal ==
    /\ [][\A i \in 1..Len(verifs) :
            /\ verifs'[i].status \in {"pending", "approved", "rejected"}
            /\ verifs[i].status # "pending"
                  => verifs'[i].status = verifs[i].status]_vars
    /\ [][\A a \in AdminOps :
            ( /\ adm[a].pc = "read"
              /\ adm'[a] # adm[a]
              /\ adm[a].v <= Len(verifs)
              /\ verifs[adm[a].v].status # "pending" )
            => /\ adm'[a].pc = "done"
               /\ adm'[a].result = "failed_precondition"
               /\ verifs' = verifs]_vars

\* The ids the query of a bulk approval returned.
ItemIds(op) == {op.items[k].id : k \in 1..Len(op.items)}

\* C22: a bulk approval takes up every verification that is pending and
\* auto-generated at its query, once; an item whose orchestrator run
\* fails keeps its status, gets the error written to it, adds one entry to
\* errors and one to fail_count, and the loop goes on with the next item;
\* an item is set to approved only after its orchestrator run succeeded;
\* the items dealt with so far, and at the end all of them, number
\* success_count + fail_count, and errors has fail_count entries.
BulkIsolatesFailures ==
    /\ [][\A a \in AdminOps :
            LET op == adm[a]
                after == adm'[a]
            IN  /\ (op.pc = "query" /\ after # op) =>
                      /\ ItemIds(after) =
                            {i \in 1..Len(verifs) :
                                /\ verifs[i].status = "pending"
                                /\ verifs[i].auto_generated}
                      /\ Len(after.items) = Cardinality(ItemIds(after))
                /\ (op.pc = "bulk_provision" /\ after # op
                      /\ after.run # "ok") =>
                      LET id == op.items[op.i].id IN
                      /\ verifs'[id].status = verifs[id].status
                      /\ verifs'[id].provisioning_error = after.run
                      /\ after.fail_count = op.fail_count + 1
                      /\ after.success_count = op.success_count
                      /\ after.errors =
                            Append(op.errors, [id |-> id,
                                               error |-> after.run])
                      /\ after.i = op.i + 1
                      /\ op.i < Len(op.items) => after.pc = "bulk_provision"
                /\ (op.kind = "bulk" /\ after # op
                      /\ \E i \in 1..Len(verifs) :
                            verifs'[i].status # verifs[i].status) =>
                      /\ op.pc = "bulk_update"
                      /\ op.run = "ok"
                      /\ verifs' = [verifs EXCEPT
                            ![op.items[op.i].id].status = "approved"]]_vars
    /\ [](\A a \in AdminOps :
            LET op == adm[a] IN
            op.kind = "bulk" =>
                /\ op.pc = "bulk_update" => op.run = "ok"
                /\ op.pc \in {"bulk_provision", "bulk_update"} =>
                      op.success_count + op.fail_count = op.i - 1
                /\ (op.pc = "done" /\ op.result = "ok") =>
                      op.success_count + op.fail_count = Len(op.items)
                /\ Len(op.errors) = op.fail_count)

\* A bulk approval of two verifications returned: the run for the first
\* failed, which is pending with the error on it and in errors; the
\* second is approved.
BulkWitness ==
    \E a \in AdminOps :
        LET op == adm[a] IN
        /\ op.kind = "bulk" /\ op.pc = "done" /\ op.result = "ok"
        /\ Len(op.items) = 2
        /\ op.success_count = 1 /\ op.fail_count = 1
        /\ op.errors = <<[id |-> op.items[1].id, error |-> "identity"]>>
        /\ verifs[op.items[1].id].status = "pending"
        /\ verifs[op.items[1].id].provisioning_error = "identity"
        /\ verifs[op.items[2].id].status = "approved"

\* C23: no step changes the subscription_created of a verification that
\* has one.
SubscriptionCreatedImmutable ==
    [][\A i \in 1..Len(verifs) :
          verifs[i].subscription_created # 0
          => verifs'[i].subscription_created
                = verifs[i].subscription_created]_vars

\* The admins: the callers named in the list of some endpoint.
AllowList == {"admin", "bulk_admin"}

\* C26: a call by a caller who is not signed in or not an admin ends at
\* once with an authorization error and changes nothing else; every
\* operation in progress is an admin's, and every step that changes a
\* subscription, verification, customer or account is a step of such an
\* operation.
AdminOnly ==
    /\ [][\A a \in AdminOps :
            (adm[a].pc = "idle" /\ adm'[a] # adm[a]
                /\ adm'[a].caller \notin AllowList) =>
                /\ adm'[a].pc = "done"
                /\ adm'[a].result =
                      IF adm'[a].caller = "anonymous" THEN "unauthenticated"
                      ELSE "permission_denied"
                /\ <<subs, verifs, customers, authUsers, astronUsers,
                     pwCounter, payments, ledger>>'
                      = <<subs, verifs, customers, authUsers, astronUsers,
                          pwCounter, payments, ledger>>]_vars
    /\ [](\A a \in AdminOps :
            adm[a].pc \notin {"idle", "done"} => adm[a].caller \in AllowList)
    /\ [][<<subs, verifs, customers, authUsers, astronUsers, pwCounter>>'
              # <<subs, verifs, customers, authUsers, astronUsers, pwCounter>>
          => \E a \in AdminOps :
                /\ adm[a].pc \notin {"idle", "done"}
                /\ adm[a].caller \in AllowList
                /\ adm'[a] # adm[a]]_vars

\* A signed-in user who is no admin was refused, and an admin's rejection
\* of the same verification went through.
AdminOnlyWitness ==
    \E a1, a2 \in AdminOps :
        /\ adm[a1].caller = "user"
        /\ adm[a1].pc = "done"
        /\ adm[a1].result = "permission_denied"
        /\ adm[a2].caller = "admin"
        /\ adm[a2].kind = "reject"
        /\ adm[a2].result = "ok"
        /\ adm[a2].v = adm[a1].v
        /\ verifs[adm[a2].v].status = "rejected"

\* ------------------------------------------------ failed events
\* C31: when the handler raises, the ledger entry is marked processed with
\* the error text; a delivery of the same key that comes after it is
\* answered 200 as a duplicate in its ledger read without running the
\* handler or changing the ledger, subscriptions, payments, verifications
\* or customers, and an entry marked with an error is never written again
\* nor its handler run again.
FailedEventNotRetried ==
    /\ [][\A d \in Deliveries :
            (pc[d] = "mark_err" /\ loc'[d].result = "error") =>
                /\ ledger'[EventKey(ev[d])].processed
                /\ ledger'[EventKey(ev[d])].error # ""
                /\ http'[d] = 500]_vars
    /\ [][\A d \in Deliveries :
            ( /\ pc[d] = "txn_read"
              /\ pc'[d] # "txn_read"
              /\ ledger[EventKey(ev[d])].processed
              /\ ledger[EventKey(ev[d])].error # "" ) =>
                /\ pc'[d] = "done"
                /\ http'[d] = 200
                /\ loc'[d].result = "already_processed"
                /\ durable' = durable
                /\ hist'.runs = hist.runs]_vars
    /\ [][\A k \in Keys :
            (ledger[k].processed /\ ledger[k].error # "") =>
                /\ ledger'[k] = ledger[k]
                /\ hist'.runs[k] = hist.runs[k]]_vars

\* The handler of a settlement raised, the sender was answered 500, its
\* redelivery was short-circuited, and the subscription is still not
\* active.
FailedEventWitness ==
    \E d1, d2 \in Deliveries :
        /\ d1 # d2
        /\ ev[d1] = ev[d2]
        /\ IsSettlement(ev[d1])
        /\ pc[d1] = "done" /\ loc[d1].result = "error" /\ http[d1] = 500
        /\ pc[d2] = "done" /\ loc[d2].result = "already_processed"
        /\ http[d2] = 200
        /\ ledger[EventKey(ev[d1])].processed
        /\ ledger[EventKey(ev[d1])].error # ""
        /\ hist.runs[EventKey(ev[d1])] = 1
        /\ subs[ev[d1].sub].status # "active"

\* ------------------------------------------------ overlapping runs
\* The failures given to a run whose steps interleave with another's.
RunFailPoints == {"none", "decrypt", "identity", "update"}

\* customer.doc of the run o: the document read in step 1, with the fields
\* the run's own update_doc calls have written since; what other runs
\* wrote to the stored document in between is not in it.
RunView(o) ==
    IF o.cid = 0 THEN customers ELSE [customers EXCEPT ![o.cid] = o.doc]

\* The run o about to make its next step, on the collections as they are
\* now.
RunState(o) ==
    [StartRun(o.sub, o.fail) EXCEPT
        !.hit = o.hit, !.done = o.done, !.cid = o.cid,
        !.customers = RunView(o), !.password = o.password,
        !.firebase_uid = o.firebase_uid,
        !.astron_member_id = o.astron_member_id]

\* The customers collection after the step that took the run o to y:
\* update_doc (create_doc for a new customer) writes the fields the step
\* set, those named in `always` whatever their value, and leaves the other
\* fields of the stored document as they are.
StoredAfter(o, y, always) ==
    IF y.cid = 0 THEN customers
    ELSE LET before == RunView(o)[y.cid]
             after == y.customers[y.cid]
         IN  [customers EXCEPT ![y.cid] =
                 [f \in DOMAIN after |->
                     IF after[f] # before[f] \/ f \in always THEN after[f]
                     ELSE customers[y.cid][f]]]

\* The step that takes run r to y takes effect; the run ends when the step
\* raised (the except clause of provision_customer) or was the last.
Stepped(r, y, always, last) ==
    LET o == orch[r]
        ends == y.raised # "none" \/ last
    IN  /\ customers' = StoredAfter(o, y, always)
        /\ authUsers' = y.authUsers
        /\ astronUsers' = y.astronUsers
        /\ pwCounter' = y.pwCounter
        /\ subs' = IF ends THEN EndRun(y).subs ELSE subs
        /\ orch' = [orch EXCEPT ![r] =
              [o EXCEPT !.pc = IF ends THEN "done" ELSE "running",
                        !.hit = IF y.raised # "none" THEN y.raised
                                ELSE y.hit,
                        !.done = IF last /\ y.raised = "none" THEN 8
                                 ELSE y.done,
                        !.cid = y.cid,
                        !.doc = IF y.cid = 0 THEN o.doc
                                ELSE y.customers[y.cid],
                        !.password = y.password,
                        !.firebase_uid = y.firebase_uid,
                        !.astron_member_id = y.astron_member_id,
                        !.ok = last /\ y.raised = "none"]]
        /\ UNCHANGED <<ledger, payments, verifs, policy, now, pc, ev, loc,
                       http, hist, co, adm, keyed, retry, limits>>

Running == {r \in RunIds : orch[r].pc = "running"}

\* The calls made so far.
RECURSIVE StartsUpTo(_)
StartsUpTo(r) == IF r = 0 THEN 0 ELSE orch[r].n + StartsUpTo(r - 1)

Started == StartsUpTo(MaxOverlap)

\* provision_customer(s) is called: the subscription and its product are
\* read.  Nothing tells the call that another one is in progress.
RunStart(r, s, fail) ==
    /\ orch[r].pc \in {"idle", "done"}
    /\ \A r2 \in RunIds : r2 < r => orch[r2].pc # "idle"
    /\ Started < MaxStarts
    /\ LET x == StartRun(s, fail)
           others == Running \ {r}
       IN  orch' = [q \in RunIds |->
              IF q = r
              THEN [NoOrch EXCEPT
                      !.pc = IF x.raised = "none" THEN "running" ELSE "done",
                      !.n = orch[r].n + 1,
                      !.sub = s, !.fail = fail, !.hit = x.raised,
                      !.overlapped = others # {} /\ x.raised = "none"]
              ELSE IF q \in others /\ x.raised = "none"
              THEN [orch[q] EXCEPT !.overlapped = TRUE]
              ELSE orch[q]]
    /\ UNCHANGED <<ledger, subs, payments, verifs, customers, authUsers,
                   astronUsers, pwCounter, policy, now, pc, ev, loc, http,
                   hist, co, adm, keyed, retry, limits>>

At(r, n) == orch[r].pc = "running" /\ orch[r].done = n

RunCustomer(r) ==
    /\ At(r, 0)
    /\ Stepped(r, GetOrCreateCustomer(RunState(orch[r])), {}, FALSE)

RunPassword(r) ==
    /\ At(r, 1)
    /\ Stepped(r, GetOrGeneratePassword(RunState(orch[r])), {}, FALSE)

RunIdentity(r) ==
    /\ At(r, 2)
    /\ Stepped(r, CreateOrGetFirebaseUser(RunState(orch[r])), {}, FALSE)

RunMembership(r) ==
    /\ At(r, 3)
    /\ Stepped(r, CreateOrUpdateAstronAccount(RunState(orch[r])), {}, FALSE)

RunMagic(r) ==
    /\ At(r, 4)
    /\ Stepped(r, GenerateMagicLoginUrl(RunState(orch[r])),
               {"magic_login_url"}, FALSE)

\* steps 6 to 8
RunComplete(r) ==
    /\ At(r, 5)
    /\ Stepped(r, Advisory(Advisory(RunState(orch[r]), "sync", 6),
                           "affiliate", 7), {}, TRUE)

NextRuns ==
    \/ \E r \in RunIds, s \in SubIds, fail \in RunFailPoints :
          RunStart(r, s, fail)
    \/ \E r \in RunIds : RunCustomer(r)
    \/ \E r \in RunIds : RunPassword(r)
    \/ \E r \in RunIds : RunIdentity(r)
    \/ \E r \in RunIds : RunMembership(r)
    \/ \E r \in RunIds : RunMagic(r)
    \/ \E r \in RunIds : RunComplete(r)

SpecRuns == Init /\ [][NextRuns]_vars

\* ------------------------------------------ overlapping runs: properties
\* Run r returns in this step.
Returns(r) == orch[r].pc = "running" /\ orch'[r].pc = "done"

\* C32: when a run returns success, the password of the identity account
\* of the customer's e-mail is the decrypted generated_password stored on
\* the Customer, in sequential replays and in overlapping runs.
PasswordMatchesStored ==
    [][\A r \in RunIds :
          (Returns(r) /\ orch'[r].ok) =>
              LET c == customers'[orch'[r].cid]
                  m == EmailOfSub(orch'[r].sub)
              IN  /\ authUsers'[m].exists
                  /\ c.generated_password # <<>>
                  /\ authUsers'[m].password
                        = Decrypt(c.generated_password)]_vars

\* C33: two runs for the same subscription overlap without either being
\* refused, and when both have returned there is one Customer record for
\* the e-mail and, if either succeeded, one identity account, a membership
\* id on the customer and provisioning_status = completed.
OverlapConverges ==
    \A r1, r2 \in RunIds :
        ( /\ r1 # r2
          /\ orch[r1].pc = "done" /\ orch[r2].pc = "done"
          /\ orch[r1].overlapped /\ orch[r2].overlapped
          /\ orch[r1].sub = orch[r2].sub ) =>
            LET s == orch[r1].sub
                m == EmailOfSub(s)
            IN  /\ Cardinality(CustomersByEmail(customers, m)) = 1
                /\ (orch[r1].ok \/ orch[r2].ok) =>
                      /\ authUsers[m].exists
                      /\ CustomerOf(s).astron_member_id # 0
                      /\ subs[s].provisioning_status = "completed"

\* ------------------------------------------ provisioning status
\* The failures that make a run raise from steps 1 to 5.
Aborting == LoadBearing \ Swallowed

\* C34: provisioning_status does not only move forward: a run on a
\* completed subscription that fails in one of steps 1 to 5 leaves it
\* failed with the error, and a run that succeeds on a failed subscription
\* leaves it completed with the provisioning_error of the earlier run still
\* in place.
ProvisioningStatusNotMonotonic ==
    [][Ran =>
          LET r == hist'.run
              before == subs[r.sub]
              after == subs'[r.sub]
          IN  /\ ( /\ before.provisioning_status = "completed"
                    /\ r.hit \in Aborting ) =>
                    /\ ~r.ok
                    /\ after.provisioning_status = "failed"
                    /\ after.provisioning_error = r.hit
              /\ (before.provisioning_status = "failed" /\ r.ok) =>
                    /\ after.provisioning_status = "completed"
                    /\ after.provisioning_error = before.provisioning_error
                    /\ after.provisioning_error # ""]_vars

\* A subscription that had been completed (access was granted) is failed
\* after a re-run whose identity step raised.
CompletedThenFailedWitness ==
    /\ hist.run.n >= 2
    /\ ~hist.run.ok
    /\ hist.run.hit = "identity"
    /\ subs[hist.run.sub].provisioning_status = "failed"
    /\ subs[hist.run.sub].access_granted_at > 0

\* A subscription is completed and still carries the error of an earlier
\* run.
CompletedWithErrorWitness ==
    /\ hist.run.ok
    /\ subs[hist.run.sub].provisioning_status = "completed"
    /\ subs[hist.run.sub].provisioning_error # ""

\* ------------------------------------------ approval and the orchestrator
\* C35: an approval writes status = approved before it creates the
\* subscription and runs the orchestrator; when the orchestrator raises,
\* the call ends with an internal error and leaves the verification as it
\* is, approved and with the subscription_created it had; no step returns
\* a verification to pending, and an approve or reject that reads a
\* verification that is not pending is refused with failed-precondition
\* and writes nothing.
ApproveFailureKeepsApproved ==
    /\ [][\A a \in AdminOps :
            (adm[a].kind = "approve" /\ adm[a].pc = "update"
                /\ adm'[a] # adm[a]) =>
                /\ verifs'[adm[a].v].status = "approved"
                /\ adm'[a].pc = "create_sub"
                /\ adm'[a].run = "none"
                /\ subs' = subs]_vars
    /\ [][\A a \in AdminOps :
            (adm[a].kind = "approve" /\ adm[a].pc = "provision"
                /\ adm'[a].run \notin {"none", "ok"}) =>
                /\ adm'[a].pc = "done"
                /\ adm'[a].result = "internal"
                /\ verifs' = verifs]_vars
    /\ [][\A i \in 1..Len(verifs) :
            verifs[i].status # "pending" =>
                verifs'[i].status # "pending"]_vars
    /\ [][\A a \in AdminOps :
            ( /\ adm[a].kind \in {"approve", "reject"}
              /\ adm[a].pc = "read"
              /\ adm'[a] # adm[a]
              /\ adm[a].v <= Len(verifs)
              /\ verifs[adm[a].v].status # "pending" ) =>
                /\ adm'[a].pc = "done"
                /\ adm'[a].result = "failed_precondition"
                /\ <<subs, verifs, customers, authUsers, astronUsers,
                     pwCounter>>'
                      = <<subs, verifs, customers, authUsers, astronUsers,
                          pwCounter>>]_vars

\* An approval whose orchestrator run raised left the verification
\* approved and not linked to the subscription it created, and a later
\* call for the same verification was refused.
ApproveFailureWitness ==
    \E a1, a2 \in AdminOps :
        /\ adm[a1].kind = "approve"
        /\ adm[a1].pc = "done"
        /\ adm[a1].result = "internal"
        /\ adm[a1].run = "identity"
        /\ verifs[adm[a1].v].status = "approved"
        /\ verifs[adm[a1].v].subscription_created # adm[a1].sub
        /\ subs[adm[a1].sub].provisioning_status = "failed"
        /\ adm[a2].kind \in {"approve", "reject"}
        /\ adm[a2].v = adm[a1].v
        /\ adm[a2].result = "failed_precondition"

PastPayment == {"policy", "branch", "mv_check", "mv_add", "provision"}

\* Invocation d moves to position p in this step.
Enters(d, p) == pc[d] # p /\ pc'[d] = p

\* C37: a settlement handler activates the subscription, then writes the
\* Payment, and only then reads the policy: whatever branch it takes, the
\* subscription has access_granted_at set and a Payment, and when the
\* manual branch adds its pending verification the subscription is active
\* already (or was cancelled since).
ActivatedBeforePolicy ==
    /\ [][\A d \in Deliveries :
            /\ Enters(d, "lead") =>
                  /\ pc[d] = "activate"
                  /\ subs'[ev[d].sub].status = "active"
                  /\ subs'[ev[d].sub].access_granted_at = now
            /\ Enters(d, "payment") => pc[d] = "lead"
            /\ Enters(d, "policy") =>
                  /\ pc[d] = "payment"
                  /\ \E p \in payments' :
                        /\ p.subscription_id = ev[d].sub
                        /\ p.provider_payment_id = ev[d].invoice
            /\ Enters(d, "branch") => pc[d] = "policy"
            /\ Enters(d, "mv_check") => pc[d] = "branch"
            /\ Enters(d, "provision") => pc[d] = "branch"
            /\ Enters(d, "mv_add") => pc[d] = "mv_check"]_vars
    /\ [](\A d \in Deliveries :
            (pc[d] \in PastPayment \/ hist.branch[d] # {}) =>
                /\ subs[ev[d].sub].status \in {"active", "cancelled"}
                /\ subs[ev[d].sub].access_granted_at > 0
                /\ \E p \in payments : p.subscription_id = ev[d].sub)
    /\ [][\A d \in Deliveries :
            (pc[d] = "mv_add" /\ pc'[d] = "mark") =>
                /\ verifs' = Append(verifs, AutoVerification(ev[d].sub))
                /\ subs'[ev[d].sub].status \in {"active", "cancelled"}
                /\ subs'[ev[d].sub].access_granted_at > 0]_vars

\* A settlement handled with the policy disabled: the subscription is
\* active with access granted and paid for, and its auto-generated
\* verification is pending.
ActiveWhilePendingWitness ==
    \E d \in Deliveries :
        /\ pc[d] = "done"
        /\ hist.branch[d] = {"manual"}
        /\ subs[ev[d].sub].status = "active"
        /\ subs[ev[d].sub].access_granted_at > 0
        /\ subs[ev[d].sub].provisioning_status = "unset"
        /\ PaymentsOf(ev[d]) # {}
        /\ \E i \in AutoVerifsOfSub(verifs, ev[d].sub) :
              verifs[i].status = "pending"

\* ------------------------------------------ settlements and bulk approval
\* A settled BTCPay invoice with neither metadata.subscriptionId nor
\* orderId.
Unattributed ==
    [provider |-> "btcpay", type |-> "InvoiceSettled",
     id |-> 0, invoice |-> 1, sub |-> 0, paid |-> TRUE]

\* Settlement notifications handled one after the other, and bulk
\* approvals of the queue they leave, whatever the state of settings/main.
NextQueue ==
    \/ \E d \in Deliveries, e \in Events \cup {Unattributed} :
            ReceiveSeq(d, e, "valid")
    \/ HandlerSteps
    \/ \E a \in AdminOps : BulkApproveVerifications(a, "bulk_admin")
    \/ \E a \in AdminOps : BulkQuery(a)
    \/ \E a \in AdminOps, fail \in AdminFailPoints : BulkProvision(a, fail)
    \/ \E a \in AdminOps : BulkUpdate(a)

SpecQueue == InitSettings /\ [][NextQueue]_vars

\* The subscriptions referenced by some verification, none of them
\* auto-generated.
ReferencedByOther ==
    {s \in SubIds : /\ VerifsOfSub(verifs, s) # {}
                    /\ AutoVerifsOfSub(verifs, s) = {}}

\* C38: with the policy disabled, a settlement handler that finds a
\* verification with subscription_created = the subscription id, of
\* whatever kind, adds none and runs no orchestrator; the query of bulk
\* approval returns only pending auto-generated verifications; so a
\* subscription referenced only by other verifications keeps
\* provisioning_status unset through the event and through bulk
\* approvals.
ReferencedSubscriptionStranded ==
    /\ [][\A d \in Deliveries :
            ( /\ pc[d] = "mv_check"
              /\ pc'[d] # "mv_check"
              /\ loc'[d].result # "timeout"
              /\ VerifsOfSub(verifs, ev[d].sub) # {} ) =>
                /\ pc'[d] = "mark"
                /\ <<verifs, subs, customers, authUsers, astronUsers>>'
                      = <<verifs, subs, customers, authUsers, astronUsers>>
          ]_vars
    /\ [][\A a \in AdminOps :
            (adm[a].pc = "query" /\ adm'[a] # adm[a]) =>
                \A i \in 1..Len(adm'[a].items) :
                    LET v == verifs[adm'[a].items[i].id] IN
                    /\ v.auto_generated
                    /\ v.status = "pending"
                    /\ adm'[a].items[i].subscription_created
                          \notin ReferencedByOther]_vars
    /\ [](policy # "on" =>
            \A s \in ReferencedByOther :
                /\ subs[s].provisioning_status = "unset"
                /\ \A d \in Deliveries :
                      ev[d].sub = s => "auto" \notin hist.branch[d])

\* The settlement of a partner-offer purchase was handled with the policy
\* disabled and a bulk approval ran afterwards: the subscription is active,
\* has no auto-generated verification and was not provisioned, and the
\* bulk approval found nothing to approve.
StrandedWitness ==
    \E d \in Deliveries, a \in AdminOps :
        LET s == ev[d].sub IN
        /\ pc[d] = "done"
        /\ hist.branch[d] = {"manual"}
        /\ s \in ReferencedByOther
        /\ subs[s].status = "active"
        /\ subs[s].provisioning_status = "unset"
        /\ adm[a].kind = "bulk"
        /\ adm[a].pc = "done"
        /\ adm[a].result = "ok"
        /\ adm[a].success_count = 0
        /\ adm[a].fail_count = 0

\* settings/main does not exist, or has no auto_provisioning_enabled field.
NoSetting == {"missing", "nofield"}

\* C39: when settings/main is missing or has no auto_provisioning_enabled
\* field, the settlement handler reads the policy as disabled, goes on to
\* the manual-verification branch and never invokes the orchestrator.
MissingSettingIsDisabled ==
    /\ [][\A d \in Deliveries :
            (pc[d] = "policy" /\ pc'[d] = "branch" /\ policy \in NoSetting)
                => ~loc'[d].auto_prov_enabled]_vars
    /\ [][\A d \in Deliveries :
            ( /\ pc[d] = "branch"
              /\ pc'[d] \notin {"branch", "done"}
              /\ policy \in NoSetting ) => pc'[d] = "mv_check"]_vars
    /\ [](policy \in NoSetting =>
            \A d \in Deliveries :
                /\ pc[d] # "provision"
                /\ "auto" \notin hist.branch[d])

\* A settlement with the per-purchase flag set was handled while
\* settings/main had no auto_provisioning_enabled field: the handler took
\* the manual branch and the subscription is not provisioned.
MissingSettingWitness ==
    \E d \in Deliveries :
        /\ pc[d] = "done"
        /\ policy = "nofield"
        /\ loc[d].should_provision
        /\ hist.branch[d] = {"manual"}
        /\ AutoVerifsOfSub(verifs, ev[d].sub) # {}
        /\ subs[ev[d].sub].provisioning_status = "unset"

\* A settlement-type event its handler does not act on: no subscription
\* id, or a Stripe session whose payment_status is not 'paid'.
NotActionable(e) ==
    /\ IsSettlement(e)
    /\ (e.sub = 0 \/ (e.provider = "stripe" /\ ~e.paid))

\* The steps of a handler that activate, record the payment, queue a
\* verification or provision.
Settling == {"activate", "lead", "payment", "policy", "branch", "mv_check",
             "mv_add", "provision"}

\* A step of delivery d that activates nothing, writes no Payment and no
\* verification and runs no orchestrator.
NoSettlementEffect(d) ==
    /\ pc'[d] \notin Settling
    /\ payments' = payments
    /\ verifs' = verifs
    /\ customers' = customers
    /\ authUsers' = authUsers
    /\ astronUsers' = astronUsers
    /\ hist'.branch[d] = {}
    /\ \A s \in SubIds :
          /\ subs'[s].status = subs[s].status
          /\ subs'[s].access_granted_at = subs[s].access_granted_at
          /\ subs'[s].provisioning_status = subs[s].provisioning_status

\* Delivery d comes to the end of process_with_idempotency having run its
\* handler.
HandlerEnds(d) ==
    /\ pc[d] \in InFlight
    /\ pc'[d] = "done"
    /\ loc'[d].result \notin {"timeout", "already_processed"}

NotActionableErrorWitness ==
    \E d \in Deliveries :
        /\ pc[d] = "done"
        /\ NotActionable(ev[d])
        /\ ev[d].sub # 0
        /\ ~subs[ev[d].sub].exists
        /\ loc[d].result = "error"
        /\ ledger[EventKey(ev[d])].processed
        /\ ledger[EventKey(ev[d])].error # ""

====
